---------------------------- MODULE Spec2Model ----------------------------
(***************************************************************************)
(* A model of glum's GeneralizedLinearRegressorBase (src/glum/_glm.py):    *)
(* hyperparameter validation, the set-up of a fit, the penalty set-up, the *)
(* regularization path and the dispatch to the inner solvers.              *)
(*                                                                         *)
(* Numbers.  Tolerances are integers in units of 1e-8.  l1_ratio is the    *)
(* numerator of a fraction with denominator L1Den.  Other reals are exact  *)
(* rationals <<num, den>> with den > 0.                                    *)
(***************************************************************************)
EXTENDS Integers, Sequences, FiniteSets, TLC

VARIABLES
    hp,      \* the estimator's hyperparameters (the arguments of __init__)
    self,    \* the attributes a fit sets on the estimator
    args,    \* the data handed to the running call
    pc,      \* the position of the running call
    err,     \* the exception that ended the call, or NoError
    irls,    \* the state of the running solver (IRLSState)
    path,    \* the locals of _solve_regularization_path / _get_alpha_path
    calls    \* history: the solver invocations made so far

vars == <<hp, self, args, pc, err, irls, path, calls>>

---------------------------------------------------------------------------
(* Optional values: None is the empty sequence, a value v is <<v>>.        *)
None == <<>>
Some(v) == <<v>>
Val(o) == o[1]

(* Bounds of the model.                                                    *)
L1Den == 2
MaxIter == 2
MaxNAlphas == 3
MaxPathLen == 2

(* Program constants.                                                      *)
TolTrustConstr == 1
TolDefault == 10000
DefaultMaxInnerIter == 100000

RECURSIVE SumSeq(_)
SumSeq(s) == IF s = <<>> THEN 0 ELSE Head(s) + SumSeq(Tail(s))

Abs(x) == IF x < 0 THEN -x ELSE x

---------------------------------------------------------------------------
(* __init__: the defaults of the constructor.                              *)
Defaults ==
    [ l1_ratio |-> 0,
      P1 |-> [kind |-> "str", str |-> "identity", arr |-> <<>>, castable |-> TRUE],
      P2 |-> [kind |-> "str", str |-> "identity", arr |-> [ndim |-> 1, v |-> <<>>]],
      fit_intercept |-> TRUE,
      family |-> "normal",
      link |-> "auto",
      solver |-> "auto",
      max_iter |-> MaxIter,
      max_inner_iter |-> DefaultMaxInnerIter,
      gradient_tol |-> None,
      step_size_tol |-> None,
      warm_start |-> FALSE,
      alpha_search |-> FALSE,
      n_alphas |-> MaxNAlphas,
      min_alpha_ratio |-> None,
      min_alpha |-> None,
      selection |-> "cyclic",
      copy_X |-> None,
      check_input |-> TRUE,
      scale_predictors |-> FALSE,
      lower_bounds |-> None,
      upper_bounds |-> None,
      A_ineq |-> None,
      b_ineq |-> None,
      alpha |-> None,
      start_params |-> None,
      robust |-> TRUE,
      expected_information |-> FALSE,
      nonbool |-> {} ]

NoError == [type |-> "none", at |-> "none"]
Raised(t, where) == [type |-> t, at |-> where]

(* The attributes of the estimator before any fit: none is set.            *)
Unfitted ==
    [ _family_instance |-> "unset",
      _link_instance |-> "unset",
      _center_predictors |-> FALSE,
      _num_obs |-> 0,
      _solver |-> "unset",
      _gradient_tol |-> 0,
      n_iter_ |-> -1, _n_cycles |-> -1, diagnostics_ |-> None,
      coef_path_ |-> <<>>,
      coef_ |-> None,
      intercept_ |-> None,
      n_features_in_ |-> 0,
      feature_names_ |-> <<>>,
      term_names_ |-> <<>>,
      alpha_ |-> None,
      _alphas |-> None,
      covariance_matrix_ |-> None ]

NoIrls ==
    [ coef |-> <<>>, n_iter |-> 0, converged |-> FALSE, max_iter |-> 0,
      fixed_inner_tol |-> None, inner |-> "none" ]

NoPath ==
    [ mode |-> "single", k |-> 0, coef |-> <<>>, alphas |-> <<>>,
      P1 |-> <<>>, P1_no_alpha |-> <<>>, alpha_max |-> None, grid |-> <<>>,
      P2 |-> [ndim |-> 1, v |-> <<>>], P2_no_alpha |-> [ndim |-> 1, v |-> <<>>],
      start |-> <<>>, warned |-> {} ]

(* The data of a call that the actions read.                               *)
NoArgs ==
    [ y |-> <<0>>, n_features |-> 1, coef |-> <<0>>, alphas |-> None,
      stationary |-> {}, singular |-> FALSE,
      X |-> <<<<0>>>>, offset |-> None,
      col_means |-> <<0>>, col_stds |-> None, intercept_guess |-> 0 ]

---------------------------------------------------------------------------
(* _validate_hyperparameters, check by check, in the order of the code.    *)

HasBounds(h) == (h.lower_bounds # None) \/ (h.upper_bounds # None)

HasIneq(h) == (h.A_ineq # None) \/ (h.b_ineq # None)

KnownSolvers == {"auto", "irls-ls", "lbfgs", "irls-cd", "trust-constr"}

BoundsSolverConflict_LbfgsToo(h) ==
    HasBounds(h) /\ h.solver \notin {"auto", "irls-cd", "lbfgs"}

BoundsSolverConflict_Lax(h) ==
    HasBounds(h) /\ h.solver \notin {"auto", "irls-cd", "irls-ls"}

BoundsSolverConflict(h) ==
    HasBounds(h) /\ h.solver \notin {"auto", "irls-cd"}

IneqSolverConflict(h) ==
    HasIneq(h) /\ h.solver \notin {"None", "auto", "trust-constr"}

BoundsAndIneq_Off(h) == FALSE

(* lines 1694-1699                                                         *)
BoundsAndIneq(h) == HasIneq(h) /\ HasBounds(h)

IneqHalfGiven(h) ==
    \/ (h.A_ineq # None) /\ (h.b_ineq = None)
    \/ (h.A_ineq = None) /\ (h.b_ineq # None)

P1HasNegative(P1) == \E i \in DOMAIN P1.arr : P1.arr[i] < 0

P1SignCheck_Off(h) == "none"

(* lines 1704-1709; np.asarray(None) >= 0 is a TypeError of the comparison *)
P1SignCheck(h) ==
    IF ~h.check_input \/ h.P1.kind = "str" THEN "none"
    ELSE IF h.P1.kind = "none" THEN "TypeError"
    ELSE IF P1HasNegative(h.P1) THEN "ValueError"
    ELSE "none"

_validate_hyperparameters(h) ==
    IF "fit_intercept" \in h.nonbool THEN "TypeError"
    ELSE IF h.solver = "newton-cg" THEN "ValueError"
    ELSE IF h.solver \notin KnownSolvers THEN "ValueError"
    ELSE IF h.max_iter <= 0 THEN "ValueError"
    ELSE IF h.gradient_tol # None /\ Val(h.gradient_tol) <= 0 THEN "ValueError"
    ELSE IF h.step_size_tol # None /\ Val(h.step_size_tol) <= 0 THEN "ValueError"
    ELSE IF "warm_start" \in h.nonbool THEN "TypeError"
    ELSE IF h.selection \notin {"cyclic", "random"} THEN "ValueError"
    ELSE IF "copy_X" \in h.nonbool THEN "TypeError"
    ELSE IF "check_input" \in h.nonbool THEN "TypeError"
    ELSE IF h.scale_predictors /\ ~h.fit_intercept THEN "ValueError"
    ELSE IF BoundsSolverConflict(h) THEN "ValueError"
    ELSE IF IneqSolverConflict(h) THEN "ValueError"
    ELSE IF BoundsAndIneq(h) THEN "NotImplementedError"
    ELSE IF IneqHalfGiven(h) THEN "ValueError"
    ELSE P1SignCheck(h)

---------------------------------------------------------------------------
(* get_family, get_link and the family's range of y.                       *)

get_family(family) ==
    IF family \in {"normal", "gaussian"} THEN "NormalDistribution"
    ELSE IF family = "poisson" THEN "PoissonDistribution"
    ELSE IF family = "binomial" THEN "BinomialDistribution"
    ELSE IF family = "gamma" THEN "GammaDistribution"
    ELSE "ValueError"

(* The Tweedie power of a family (to_tweedie), -1 when it has none.        *)
TweediePower(fam) ==
    CASE fam = "NormalDistribution" -> 0
      [] fam = "PoissonDistribution" -> 1
      [] fam = "GammaDistribution" -> 2
      [] OTHER -> -1

get_link(link, fam) ==
    IF link = "auto" THEN
        IF fam \in {"NormalDistribution", "PoissonDistribution", "GammaDistribution"}
        THEN (IF TweediePower(fam) <= 0 THEN "IdentityLink" ELSE "LogLink")
        ELSE IF fam = "BinomialDistribution" THEN "LogitLink"
        ELSE "ValueError"
    ELSE IF link = "identity" THEN "IdentityLink"
    ELSE IF link = "log" THEN "LogLink"
    ELSE IF link = "logit" THEN "LogitLink"
    ELSE IF link = "cloglog" THEN "CloglogLink"
    ELSE "ValueError"

in_y_range(fam, y) ==
    CASE fam = "NormalDistribution" -> TRUE
      [] fam = "PoissonDistribution" -> \A i \in DOMAIN y : y[i] >= 0
      [] fam = "GammaDistribution" -> \A i \in DOMAIN y : y[i] > 0
      [] fam = "BinomialDistribution" -> \A i \in DOMAIN y : y[i] >= 0 /\ y[i] <= 1
      [] OTHER -> TRUE

---------------------------------------------------------------------------
(* _set_up_for_fit                                                         *)

L1AllZero(h) == h.l1_ratio = 0

AutoSolver_NoAlphaShortcut(h) ==
    IF (h.A_ineq # None) /\ (h.b_ineq # None) THEN "trust-constr"
    ELSE IF (h.lower_bounds = None) /\ (h.upper_bounds = None) THEN
        IF L1AllZero(h) THEN "irls-ls" ELSE "irls-cd"
    ELSE "irls-cd"

(* lines 303-316: the solver picked when solver == "auto"                  *)
AutoSolver(h) ==
    IF (h.A_ineq # None) /\ (h.b_ineq # None) THEN "trust-constr"
    ELSE IF (h.lower_bounds = None) /\ (h.upper_bounds = None) THEN
        IF L1AllZero(h) THEN "irls-ls"
        ELSE IF h.alpha # None /\ Val(h.alpha) = 0 /\ ~h.alpha_search THEN "irls-ls"
        ELSE "irls-cd"
    ELSE "irls-cd"

ChosenSolver(h) == IF h.solver = "auto" THEN AutoSolver(h) ELSE h.solver

ChosenGradientTol(h, solver) ==
    IF h.gradient_tol = None
    THEN (IF solver = "trust-constr" THEN TolTrustConstr ELSE TolDefault)
    ELSE Val(h.gradient_tol)

YRangeError_Never(h, fam, y) == FALSE

(* lines 329-334                                                           *)
YRangeError(h, fam, y) == h.check_input /\ ~in_y_range(fam, y)

(* The attributes after _set_up_for_fit(y); they are assigned before the   *)
(* check of y, so they stay assigned when it raises.                       *)
SetUpAttrs(h, s, y) ==
    [s EXCEPT !._family_instance = get_family(h.family),
              !._link_instance = get_link(h.link, get_family(h.family)),
              !._center_predictors = h.fit_intercept,
              !._num_obs = Len(y),
              !._solver = ChosenSolver(h),
              !._gradient_tol = ChosenGradientTol(h, ChosenSolver(h))]

---------------------------------------------------------------------------
(* setup_p1: <<error, P1>>.  The result is alpha * l1_ratio * P1 in units  *)
(* of 1 / L1Den; the sign of the weights is not looked at here.            *)

Ones(n) == [i \in 1..n |-> 1]

Scale(c, v) == [i \in DOMAIN v |-> c * v[i]]

P1Weights(P1, n_features) == IF P1.kind = "array" THEN P1.arr ELSE Ones(n_features)

setup_p1_error(P1, n_features) ==
    IF P1.kind = "str" THEN (IF P1.str # "identity" THEN "ValueError" ELSE "none")
    ELSE IF P1.kind = "none" THEN "none"
    ELSE IF ~P1.castable THEN "TypeError"
    ELSE IF Len(P1.arr) # n_features THEN "ValueError"
    ELSE "none"

setup_p1_NoAlpha(P1, n_features, alpha, l1_ratio) ==
    Scale(l1_ratio, P1Weights(P1, n_features))

setup_p1(P1, n_features, alpha, l1_ratio) ==
    Scale(alpha * l1_ratio, P1Weights(P1, n_features))

(* setup_p2.  An array is [ndim, v]: a sequence of numbers for ndim = 1, a *)
(* sequence of rows for ndim = 2.  l1_ratio counts in 1/L1Den, and the     *)
(* result of setup_p2 in 1/(2 * L1Den), so that the halves of the          *)
(* symmetrized matrix are whole numbers.                                   *)

setup_p2_error(P2, n_features) ==
    IF P2.kind = "str" THEN (IF P2.str # "identity" THEN "ValueError" ELSE "none")
    ELSE IF P2.kind = "none" THEN "none"
    ELSE IF P2.arr.ndim = 1
    THEN (IF Len(P2.arr.v) # n_features THEN "ValueError" ELSE "none")
    ELSE IF /\ Len(P2.arr.v) = n_features
            /\ \A i \in DOMAIN P2.arr.v : Len(P2.arr.v[i]) = n_features
    THEN "none" ELSE "ValueError"

(* c * P2 for a number c                                                   *)
ScaleP2(c, P2) ==
    IF P2.ndim = 1 THEN [P2 EXCEPT !.v = Scale(c, P2.v)]
    ELSE [P2 EXCEPT !.v = [i \in DOMAIN P2.v |-> Scale(c, P2.v[i])]]

Symmetrized_Not(P2) == P2

(* lines 2094-2102: 0.5 * (P2 + P2.T), on entries counted in halves.       *)
Symmetrized(P2) ==
    [P2 EXCEPT !.v = [i \in DOMAIN P2.v |-> [j \in DOMAIN P2.v |->
                         (P2.v[i][j] + P2.v[j][i]) \div 2]]]

setup_p2(P2, n_features, alpha, l1_ratio) ==
    LET scaled == ScaleP2(2 * alpha * (L1Den - l1_ratio),
                          IF P2.kind = "array" THEN P2.arr
                          ELSE [ndim |-> 1, v |-> Ones(n_features)])
    IN  IF scaled.ndim = 2 THEN Symmetrized(scaled) ELSE scaled

---------------------------------------------------------------------------
(* _solve: what it hands to the solver it dispatches to.                   *)

IsIrls(solver) == solver \in {"irls-ls", "irls-cd"}

OneStepExact_AnySolver(s) ==
    /\ s._family_instance = "NormalDistribution"
    /\ s._link_instance = "IdentityLink"

(* lines 437-441                                                           *)
OneStepExact(s) ==
    /\ s._family_instance = "NormalDistribution"
    /\ s._link_instance = "IdentityLink"
    /\ IsIrls(s._solver)

SolveMaxIter_OneMore(h, s) == IF OneStepExact(s) THEN 1 ELSE h.max_iter + 1

SolveMaxIter(h, s) == IF OneStepExact(s) THEN 1 ELSE h.max_iter

SolveFixedInnerTol(h, s) ==
    IF OneStepExact(s) THEN Some(<<s._gradient_tol, h.step_size_tol>>) ELSE None

InnerSolver(solver) ==
    CASE solver = "irls-ls" -> "_least_squares_solver"
      [] solver = "irls-cd" -> "_cd_solver"
      [] solver = "lbfgs" -> "_lbfgs_solver"
      [] solver = "trust-constr" -> "_trust_constr_solver"
      [] OTHER -> "none"

(* The record of one call of _solve.                                       *)
SolveCall(h, s, P1, P2, coef) ==
    [ solver |-> s._solver,
      inner |-> InnerSolver(s._solver),
      max_iter |-> SolveMaxIter(h, s),
      fixed_inner_tol |-> SolveFixedInnerTol(h, s),
      P1 |-> P1,
      P2 |-> P2,
      coef |-> coef,
      lower_bounds |-> h.lower_bounds,
      upper_bounds |-> h.upper_bounds,
      A_ineq |-> h.A_ineq,
      b_ineq |-> h.b_ineq ]

---------------------------------------------------------------------------
(* The IRLS outer loop (_irls_solver) and the solvers of scipy.            *)

CoefVals == {0, 1}

CoefSpace(p) == [1..p -> CoefVals]

(* check_convergence: the gradient norm is within gradient_tol exactly at  *)
(* the stationary points of the problem.                                   *)
GradientConverged(coef) == coef \in args.stationary

StepConverged(old, new) == old = new

LoopGuard_UntilMaxIter(st) == st.n_iter < st.max_iter

LoopGuard(st) == st.n_iter < st.max_iter /\ ~st.converged

NextIter(n) == n + 1

---------------------------------------------------------------------------
(* fit: the steps of one fit, in the order in which fit runs them.         *)

Fail(t, where) ==
    /\ pc' = "failed"
    /\ err' = Raised(t, where)

Validate ==
    /\ pc = "new"
    /\ LET e == _validate_hyperparameters(hp) IN
         IF e = "none"
         THEN pc' = "validated" /\ err' = err
         ELSE Fail(e, "_validate_hyperparameters")
    /\ UNCHANGED <<hp, self, args, irls, path, calls>>

SetUpForFit ==
    /\ pc = "validated"
    /\ LET fam == get_family(hp.family)
           lnk == get_link(hp.link, fam)
       IN  IF fam = "ValueError"
           THEN self' = self /\ Fail("ValueError", "_set_up_for_fit")
           ELSE IF lnk = "ValueError"
           THEN /\ self' = [self EXCEPT !._family_instance = fam]
                /\ Fail("ValueError", "_set_up_for_fit")
           ELSE /\ self' = SetUpAttrs(hp, self, args.y)
                /\ IF YRangeError(hp, fam, args.y)
                   THEN Fail("ValueError", "_set_up_for_fit")
                   ELSE pc' = "set_up" /\ err' = err
    /\ UNCHANGED <<hp, args, irls, path, calls>>

(* The alpha that fit hands to setup_p1: 1 when a path is searched.        *)
FitAlpha(h) == IF h.alpha_search \/ h.alpha = None THEN 1 ELSE Val(h.alpha)

L1SolverConflict_Off(solver, P1) == FALSE

(* The quasi-Newton solver has no L1 support: fit fails fast when it is    *)
(* asked for with a nonzero L1 penalty.                                    *)
L1SolverConflict(solver, P1) ==
    solver = "lbfgs" /\ \E j \in DOMAIN P1 : P1[j] # 0

SetupPenalty ==
    /\ pc = "set_up"
    /\ LET e == setup_p1_error(hp.P1, args.n_features)
           w == setup_p1(hp.P1, args.n_features, FitAlpha(hp), hp.l1_ratio)
           e2 == setup_p2_error(hp.P2, args.n_features)
           w2 == setup_p2(hp.P2, args.n_features, FitAlpha(hp), hp.l1_ratio)
       IN  IF e # "none"
           THEN path' = path /\ Fail(e, "setup_p1")
           ELSE IF e2 # "none"
           THEN path' = path /\ Fail(e2, "setup_p2")
           ELSE IF L1SolverConflict(self._solver, w)
           THEN path' = path /\ Fail("ValueError", "fit")
           ELSE /\ path' = IF hp.alpha_search
                           THEN [path EXCEPT !.P1_no_alpha = w, !.P2_no_alpha = w2,
                                             !.mode = "path"]
                           ELSE [path EXCEPT !.P1 = w, !.P2 = w2, !.mode = "single"]
                /\ pc' = "penalized"
                /\ err' = err
    /\ UNCHANGED <<hp, self, args, irls, calls>>

FitCallSolve ==
    /\ pc = "penalized"
    /\ path.mode = "single"
    /\ path' = [path EXCEPT !.coef = args.coef]
    /\ pc' = "solve"
    /\ UNCHANGED <<hp, self, args, err, irls, calls>>

(* _solve up to the call of the solver.  _irls_solver evaluates the start  *)
(* coefficients once before its loop.                                      *)
SolveEnter ==
    /\ pc = "solve"
    /\ LET call == SolveCall(hp, self, path.P1, path.P2, path.coef) IN
        /\ calls' = Append(calls, [call |-> call, k |-> path.k, result |-> None,
                                  out |-> None])
        /\ IF IsIrls(self._solver)
           THEN /\ irls' = [ coef |-> path.coef, n_iter |-> 0,
                             converged |-> GradientConverged(path.coef),
                             max_iter |-> call.max_iter,
                             fixed_inner_tol |-> call.fixed_inner_tol,
                             inner |-> call.inner ]
                /\ pc' = "irls"
           ELSE /\ irls' = [NoIrls EXCEPT !.coef = path.coef,
                                          !.max_iter = call.max_iter,
                                          !.inner = call.inner]
                /\ pc' = "scipy"
    /\ UNCHANGED <<hp, self, args, err, path>>

(* What a solver returns next to the coefficients: n_iter, n_cycles and    *)
(* the diagnostics, which here name the run they come from.                *)
SolverOutput(c, n) == [n_iter |-> n, n_cycles |-> n, diagnostics |-> <<n, c>>]

Returned_KeepFirst(c, n) ==
    /\ self' = IF self.n_iter_ = -1
               THEN [self EXCEPT !.n_iter_ = n, !._n_cycles = n,
                                 !.diagnostics_ = Some(<<n, c>>)]
               ELSE self
    /\ path' = [path EXCEPT !.coef = c]
    /\ calls' = [calls EXCEPT ![Len(calls)].result = Some(c),
                              ![Len(calls)].out = Some(SolverOutput(c, n))]
    /\ pc' = "solved"
    /\ err' = err

(* coef, self.n_iter_, self._n_cycles, self.diagnostics_ = solver(...)     *)
Returned(c, n) ==
    /\ self' = [self EXCEPT !.n_iter_ = SolverOutput(c, n).n_iter,
                            !._n_cycles = SolverOutput(c, n).n_cycles,
                            !.diagnostics_ = Some(SolverOutput(c, n).diagnostics)]
    /\ path' = [path EXCEPT !.coef = c]
    /\ calls' = [calls EXCEPT ![Len(calls)].result = Some(c),
                              ![Len(calls)].out = Some(SolverOutput(c, n))]
    /\ pc' = "solved"
    /\ err' = err

(* One pass of the loop of _irls_solver: the inner solver proposes the new *)
(* coefficients, which are accepted, and convergence is checked again; the *)
(* least-squares solver raises on a singular system.                       *)
IrlsIterate ==
    /\ pc = "irls"
    /\ LoopGuard(irls)
    /\ IF irls.inner = "_least_squares_solver" /\ args.singular
       THEN /\ Fail("LinAlgError", "_least_squares_solver")
            /\ UNCHANGED <<irls, self, path, calls>>
       ELSE /\ \E c \in CoefSpace(Len(irls.coef)) :
                 irls' = [irls EXCEPT
                            !.coef = c,
                            !.n_iter = NextIter(irls.n_iter),
                            !.converged = GradientConverged(c)
                                            \/ StepConverged(irls.coef, c)]
            /\ UNCHANGED <<pc, err, self, path, calls>>
    /\ UNCHANGED <<hp, args>>

IrlsExit ==
    /\ pc = "irls"
    /\ ~LoopGuard(irls)
    /\ Returned(irls.coef, irls.n_iter)
    /\ UNCHANGED <<hp, args, irls>>

(* _lbfgs_solver and _trust_constr_solver run scipy's minimize, which      *)
(* returns some coefficients after at most max_iter iterations; an unknown *)
(* solver name leaves the coefficients as they are.                        *)
ScipyRun ==
    /\ pc = "scipy"
    /\ IF irls.inner = "none"
       THEN /\ path' = path /\ self' = self /\ calls' = calls
            /\ pc' = "solved" /\ err' = err
       ELSE \E c \in CoefSpace(Len(irls.coef)), n \in 0..irls.max_iter :
              Returned(c, n)
    /\ UNCHANGED <<hp, args, irls>>

FitReturn ==
    /\ pc = "solved"
    /\ path.mode = "single"
    /\ pc' = "done"
    /\ UNCHANGED <<hp, self, args, err, irls, path, calls>>

---------------------------------------------------------------------------
(* _get_start_coef.  start_params is [ndim, vals]: an array of ndim        *)
(* dimensions with the values vals; the coefficients hold the intercept    *)
(* first when fit_intercept is set.                                        *)

(* standardize_warm_start: the slopes are multiplied by the column         *)
(* standard deviations when there are any, and the intercept takes up the  *)
(* column means times the slopes as given.                                 *)
standardize_warm_start_Unscaled(coef, col_means, col_stds) ==
    [coef EXCEPT ![1] = coef[1] + SumSeq([j \in DOMAIN col_means |->
                                             col_means[j] * coef[j + 1]])]

standardize_warm_start(coef, col_means, col_stds) ==
    [i \in DOMAIN coef |->
       IF i = 1
       THEN coef[1] + SumSeq([j \in DOMAIN col_means |->
                                col_means[j] * coef[j + 1]])
       ELSE IF col_stds = None THEN coef[i]
       ELSE coef[i] * Val(col_stds)[i - 1]]

Standardized(h, s, coef, col_means) ==
    IF s._center_predictors
    THEN standardize_warm_start(coef, col_means, args.col_stds)
    ELSE coef

StartShapeOk_Any(h, col_means) == TRUE

(* line 211                                                                *)
StartShapeOk(h, col_means) ==
    /\ Val(h.start_params).ndim = 1
    /\ Len(Val(h.start_params).vals) = Len(col_means) + (IF h.fit_intercept THEN 1 ELSE 0)

UseWarmStart_Never(h, s) == FALSE

(* line 182                                                                *)
UseWarmStart(h, s) == h.warm_start /\ s.coef_ # None

ClipToBounds_LowerOnly(h, coef) ==
    LET idx == IF h.fit_intercept THEN 1 ELSE 0
        low(j) == j > idx /\ h.lower_bounds # None
                    /\ coef[j] < Val(h.lower_bounds)[j - idx]
    IN  [coef |-> [j \in DOMAIN coef |->
                     IF low(j) THEN Val(h.lower_bounds)[j - idx] ELSE coef[j]],
         warned |-> IF \E j \in DOMAIN coef : low(j) THEN {"lower_bounds"} ELSE {}]

(* lines 223-239: the start is brought inside the bounds, first the lower  *)
(* and then the upper ones, with a warning for each kind that moves an     *)
(* entry.                                                                  *)
ClipToBounds(h, coef) ==
    LET idx == IF h.fit_intercept THEN 1 ELSE 0
        low(j) == j > idx /\ h.lower_bounds # None
                    /\ coef[j] < Val(h.lower_bounds)[j - idx]
        lo == [j \in DOMAIN coef |->
                 IF low(j) THEN Val(h.lower_bounds)[j - idx] ELSE coef[j]]
        high(j) == j > idx /\ h.upper_bounds # None
                     /\ lo[j] > Val(h.upper_bounds)[j - idx]
    IN  [coef |-> [j \in DOMAIN coef |->
                     IF high(j) THEN Val(h.upper_bounds)[j - idx] ELSE lo[j]],
         warned |-> (IF \E j \in DOMAIN coef : low(j) THEN {"lower_bounds"} ELSE {})
                    \cup
                    (IF \E j \in DOMAIN coef : high(j) THEN {"upper_bounds"} ELSE {})]

(* _get_start_coef: the error if it raises; else the start before and      *)
(* after the clipping, the warnings, and what self.coef_ holds afterwards. *)
(* With warm_start and without intercept the start is the array of         *)
(* self.coef_ itself (line 183), which is then changed in place;           *)
(* np.concatenate (186) and check_array with copy=True (205-211) give new  *)
(* arrays.                                                                 *)
_get_start_coef(h, s, a) ==
    LET Result(start, aliased) ==
            LET c == ClipToBounds(h, start) IN
            [error |-> "none", start |-> start, coef |-> c.coef,
             warned |-> c.warned,
             coef_ |-> IF aliased THEN Some(c.coef) ELSE s.coef_]
    IN  IF UseWarmStart(h, s)
        THEN IF h.fit_intercept
             THEN Result(Standardized(h, s, <<Val(s.intercept_)>> \o Val(s.coef_),
                                      a.col_means), FALSE)
             ELSE Result(Val(s.coef_), TRUE)
        ELSE IF h.start_params = None
        THEN Result(IF h.fit_intercept
                    THEN <<a.intercept_guess>> \o [j \in DOMAIN a.col_means |-> 0]
                    ELSE [j \in DOMAIN a.col_means |-> 0], FALSE)
        ELSE IF ~StartShapeOk(h, a.col_means)
        THEN [error |-> "ValueError", start |-> <<>>, coef |-> <<>>,
              warned |-> {}, coef_ |-> s.coef_]
        ELSE Result(Standardized(h, s, Val(h.start_params).vals, a.col_means), FALSE)

(* fit: the start coefficients come from _get_start_coef and go to _solve. *)
GetStartCoef ==
    /\ pc = "penalized"
    /\ path.mode = "single"
    /\ LET r == _get_start_coef(hp, self, args) IN
         /\ self' = [self EXCEPT !.coef_ = r.coef_]
         /\ IF r.error # "none"
            THEN path' = path /\ Fail(r.error, "_get_start_coef")
            ELSE /\ path' = [path EXCEPT !.coef = r.coef, !.start = r.start,
                                         !.warned = r.warned]
                 /\ pc' = "solve"
                 /\ err' = err
    /\ UNCHANGED <<hp, args, irls, calls>>

---------------------------------------------------------------------------
(* _solve_regularization_path                                              *)

(* np.empty: the rows of coef_path_ hold whatever the memory held.         *)
EmptyRows(n, p) == [1..n -> CoefSpace(p)]

(* line 544                                                                *)
PathP1(P1_no_alpha, alpha, previous) == Scale(alpha, P1_no_alpha)

PathP2_Accumulated(P2_no_alpha, alpha, previous) == ScaleP2(alpha, previous)

(* line 545                                                                *)
PathP2(P2_no_alpha, alpha, previous) == ScaleP2(alpha, P2_no_alpha)

PathStart_Cold(current, initial) == initial

(* line 555: the coefficients of the previous pass start the next one.     *)
PathStart(current, initial) == current

PathEnter ==
    /\ pc = "penalized"
    /\ path.mode = "path"
    /\ args.alphas # None
    /\ \E rows \in EmptyRows(Len(Val(args.alphas)), Len(args.coef)) :
         self' = [self EXCEPT !.coef_path_ = rows]
    /\ path' = [path EXCEPT !.k = 0, !.coef = args.coef,
                            !.alphas = Val(args.alphas)]
    /\ pc' = "path"
    /\ UNCHANGED <<hp, args, err, irls, calls>>

PathIter ==
    /\ pc = "path"
    /\ path.k < Len(path.alphas)
    /\ path' = [path EXCEPT
                  !.P1 = PathP1(path.P1_no_alpha, path.alphas[path.k + 1], path.P1),
                  !.P2 = PathP2(path.P2_no_alpha, path.alphas[path.k + 1], path.P2),
                  !.coef = PathStart(path.coef, args.coef)]
    /\ pc' = "solve"
    /\ UNCHANGED <<hp, self, args, err, irls, calls>>

PathStore ==
    /\ pc = "solved"
    /\ path.mode = "path"
    /\ self' = [self EXCEPT !.coef_path_[path.k + 1] = path.coef]
    /\ path' = [path EXCEPT !.k = path.k + 1]
    /\ pc' = "path"
    /\ UNCHANGED <<hp, args, err, irls, calls>>

PathReturn ==
    /\ pc = "path"
    /\ path.k = Len(path.alphas)
    /\ pc' = "done"
    /\ UNCHANGED <<hp, self, args, err, irls, path, calls>>

---------------------------------------------------------------------------
(* _get_alpha_path.  Alphas are non-negative rationals <<n, d>> in lowest  *)
(* terms; the floating-point rounding of log and exp is left out.          *)

FallbackAlphaMax == 10
DefaultMinAlphaRatioDen == 1000000

RECURSIVE Gcd(_, _)
Gcd(a, b) == IF b = 0 THEN a ELSE Gcd(b, a % b)

Rat(n, d) == LET g == Gcd(n, d) IN <<n \div g, d \div g>>

RatMul(p, q) == Rat(p[1] * q[1], p[2] * q[2])

RatLess(p, q) == p[1] * q[2] < q[1] * p[2]

RatMax(S) == CHOOSE p \in S : \A q \in S : ~RatLess(p, q)

(* One element of np.logspace(log(start), log(stop), n, base=e): the value *)
(* start^(1 - num/den) * stop^(num/den).  log(0) is -inf, so a zero end    *)
(* gives nan where linspace computes 0 * inf or inf - inf, and 0 where the *)
(* logarithm stays -inf.                                                   *)
GridPoint(kind, start, stop, num, den) ==
    [kind |-> kind, start |-> start, stop |-> stop, num |-> num, den |-> den]

LogspacePoint(start, stop, i, n) ==
    LET den == IF n = 1 THEN 1 ELSE n - 1 IN
    IF n > 1 /\ i = n - 1
    THEN GridPoint(IF stop[1] = 0 THEN "zero" ELSE "val", start, stop, den, den)
    ELSE IF start[1] # 0 /\ stop[1] # 0 THEN GridPoint("val", start, stop, i, den)
    ELSE IF i > 0 /\ start[1] # 0 THEN GridPoint("zero", start, stop, i, den)
    ELSE GridPoint("nan", start, stop, i, den)

logspace(start, stop, n) == [i \in 1..n |-> LogspacePoint(start, stop, i - 1, n)]

MinAlphaTooLarge_Strict(min_alpha, max_alpha) == RatLess(max_alpha, min_alpha)

(* line 366                                                                *)
MinAlphaTooLarge(min_alpha, max_alpha) == ~RatLess(min_alpha, max_alpha)

(* lines 360-373: the lower end of the grid.                               *)
GridMinAlpha(h, max_alpha) ==
    IF h.min_alpha = None
    THEN IF h.min_alpha_ratio = None
         THEN RatMul(max_alpha, Rat(1, DefaultMinAlphaRatioDen))
         ELSE RatMul(max_alpha, Val(h.min_alpha_ratio))
    ELSE Val(h.min_alpha)

_make_grid(h, max_alpha) ==
    IF h.min_alpha # None /\ MinAlphaTooLarge(Val(h.min_alpha), max_alpha)
    THEN [error |-> "ValueError", grid |-> <<>>]
    ELSE [error |-> "none",
          grid |-> logspace(max_alpha, GridMinAlpha(h, max_alpha), h.n_alphas)]

(* The normal deviance with the identity link and weights 1/n each:        *)
(* n * mu_i for coefficients given n-fold, the intercept first when there  *)
(* is one.                                                                 *)
NumObs(a) == Len(a.y)

OffsetAt(a, i) == IF a.offset = None THEN 0 ELSE Val(a.offset)[i]

MuN(h, a, coefN, i) ==
    LET io == IF h.fit_intercept THEN 1 ELSE 0 IN
    (IF h.fit_intercept THEN coefN[1] ELSE 0)
    + SumSeq([j \in 1..a.n_features |-> a.X[i][j] * coefN[j + io]])
    + NumObs(a) * OffsetAt(a, i)

(* n^2 times the derivative of the deviance in the coefficient of          *)
(* feature j.                                                              *)
DevDerN(h, a, coefN, j) ==
    -2 * SumSeq([i \in 1..NumObs(a) |->
                    a.X[i][j] * (NumObs(a) * a.y[i] - MuN(h, a, coefN, i))])

(* guess_intercept for the identity link, n-fold: the mean of y.  The      *)
(* offset is not handed to it.                                             *)
GuessInterceptN(a) == SumSeq(a.y)

(* lines 386-397                                                           *)
AlphaPathStartN(h, a) ==
    IF h.fit_intercept
    THEN <<GuessInterceptN(a)>> \o [j \in 1..a.n_features |-> 0]
    ELSE [j \in 1..a.n_features |-> 0]

L1Mask_FirstOnly(P1_no_alpha) ==
    {j \in DOMAIN P1_no_alpha :
       P1_no_alpha[j] > 0 /\ \A i \in 1..(j - 1) : P1_no_alpha[i] <= 0}

L1Mask(P1_no_alpha) == {j \in DOMAIN P1_no_alpha : P1_no_alpha[j] > 0}

(* lines 409-415; P1_no_alpha is in units of 1 / L1Den.                    *)
KktAlphaMax(h, a, P1_no_alpha) ==
    RatMax({ Rat(Abs(DevDerN(h, a, AlphaPathStartN(h, a), j)) * L1Den,
                 2 * NumObs(a) * NumObs(a) * P1_no_alpha[j]) :
             j \in L1Mask(P1_no_alpha) })

(* _get_alpha_path: [error, alpha_max, grid].  np.max of an empty          *)
(* selection raises ValueError.                                            *)
_get_alpha_path(h, a, P1_no_alpha) ==
    IF \A j \in DOMAIN P1_no_alpha : P1_no_alpha[j] = 0
    THEN [alpha_max |-> Some(Rat(FallbackAlphaMax, 1)), at |-> "_make_grid"]
         @@ _make_grid(h, Rat(FallbackAlphaMax, 1))
    ELSE IF L1Mask(P1_no_alpha) = {}
    THEN [error |-> "ValueError", grid |-> <<>>, alpha_max |-> None,
          at |-> "_get_alpha_path"]
    ELSE [alpha_max |-> Some(KktAlphaMax(h, a, P1_no_alpha)), at |-> "_make_grid"]
         @@ _make_grid(h, KktAlphaMax(h, a, P1_no_alpha))

(* fit asks for the grid when alpha_search is on and no alphas are given.  *)
GetAlphaPath ==
    /\ pc = "penalized"
    /\ path.mode = "path"
    /\ args.alphas = None
    /\ LET r == _get_alpha_path(hp, args, path.P1_no_alpha) IN
       /\ path' = [path EXCEPT !.alpha_max = r.alpha_max, !.grid = r.grid]
       /\ IF r.error # "none"
          THEN Fail(r.error, r.at)
          ELSE pc' = "alphas" /\ err' = err
    /\ UNCHANGED <<hp, self, args, irls, calls>>

---------------------------------------------------------------------------
(* Spec: one fit, with or without a path search, over the solver, the      *)
(* penalty mix, the constraints and the response.                          *)

SolverNames == KnownSolvers \cup {"newton-cg", "None"}

YSamples == {<<0, 1>>, <<-1, 1>>}

OptArrays == {None, Some(<<0>>)}

InitCommon ==
    /\ self = Unfitted
    /\ pc = "new"
    /\ err = NoError
    /\ irls = NoIrls
    /\ path = NoPath
    /\ calls = <<>>

Init ==
    /\ hp \in { [Defaults EXCEPT !.solver = s, !.l1_ratio = l, !.alpha = a,
                                 !.alpha_search = as, !.lower_bounds = lb,
                                 !.upper_bounds = ub, !.A_ineq = A, !.b_ineq = b,
                                 !.check_input = ci, !.family = f] :
                  s \in SolverNames, l \in {0, L1Den}, a \in {None, Some(0), Some(1)},
                  as \in BOOLEAN, lb \in OptArrays, ub \in OptArrays,
                  A \in OptArrays, b \in OptArrays, ci \in BOOLEAN,
                  f \in {"normal", "poisson"} }
    /\ args \in { [NoArgs EXCEPT !.y = y, !.stationary = {<<1>>},
                                  !.alphas = Some(<<2, 1>>)] :
                  y \in YSamples }
    /\ InitCommon

Next ==
    \/ Validate
    \/ SetUpForFit
    \/ SetupPenalty
    \/ FitCallSolve
    \/ SolveEnter
    \/ IrlsIterate
    \/ IrlsExit
    \/ ScipyRun
    \/ FitReturn
    \/ PathEnter
    \/ PathIter
    \/ PathStore
    \/ PathReturn

Spec == Init /\ [][Next]_vars

---------------------------------------------------------------------------
(* SpecSolve: one fit over the family, the link, the solver, max_iter, the *)
(* tolerances and the problem handed to the solver.                        *)

InitSolve ==
    /\ hp \in { [Defaults EXCEPT !.solver = s, !.family = f, !.link = l,
                                 !.max_iter = m, !.lower_bounds = lb,
                                 !.A_ineq = Ab, !.b_ineq = Ab,
                                 !.gradient_tol = gt] :
                  s \in KnownSolvers, f \in {"normal", "poisson"},
                  l \in {"auto", "identity", "log"}, m \in 1..MaxIter,
                  lb \in OptArrays, Ab \in OptArrays, gt \in {None, Some(5)} }
    /\ args \in { [NoArgs EXCEPT !.coef = c, !.stationary = st, !.singular = sg] :
                  c \in CoefSpace(1), st \in SUBSET CoefSpace(1), sg \in BOOLEAN }
    /\ InitCommon

NextSolve ==
    \/ Validate
    \/ SetUpForFit
    \/ SetupPenalty
    \/ FitCallSolve
    \/ SolveEnter
    \/ IrlsIterate
    \/ IrlsExit
    \/ ScipyRun
    \/ FitReturn

SpecSolve == InitSolve /\ [][NextSolve]_vars

(* A fit is one call that runs to its end: no step of it is postponed for  *)
(* ever.                                                                   *)
SpecSolveFair == SpecSolve /\ WF_vars(NextSolve)

---------------------------------------------------------------------------
(* SpecPath: a path search over the alphas given, the start coefficients   *)
(* and the problem.                                                        *)

AlphaVals == {1, 2}

RECURSIVE SeqsUpTo(_, _)
SeqsUpTo(S, n) ==
    IF n = 0 THEN {<<>>}
    ELSE LET shorter == SeqsUpTo(S, n - 1) IN
         shorter \cup {Append(q, x) : q \in shorter, x \in S}

InitPath ==
    /\ hp \in { [Defaults EXCEPT !.alpha_search = TRUE, !.solver = s, !.family = f,
                                 !.l1_ratio = l] :
                  s \in {"auto", "lbfgs"}, f \in {"normal", "poisson"},
                  l \in {0, 1, L1Den} }
    /\ args \in { [NoArgs EXCEPT !.alphas = Some(a), !.coef = c, !.stationary = st] :
                  a \in SeqsUpTo(AlphaVals, MaxPathLen), c \in CoefSpace(1),
                  st \in {{}, {<<1>>}} }
    /\ InitCommon

NextPath ==
    \/ Validate
    \/ SetUpForFit
    \/ SetupPenalty
    \/ PathEnter
    \/ PathIter
    \/ SolveEnter
    \/ IrlsIterate
    \/ IrlsExit
    \/ ScipyRun
    \/ PathStore
    \/ PathReturn

SpecPath == InitPath /\ [][NextPath]_vars

---------------------------------------------------------------------------
(* SpecPenalty: one fit over the L1 weights P1, alpha, l1_ratio and        *)
(* check_input.                                                            *)

P1Arrays ==
    { [kind |-> "array", str |-> "", arr |-> a, castable |-> c] :
        a \in [1..2 -> {-1, 0, 2}] \cup {<<1>>}, c \in BOOLEAN }

P1Specs ==
    P1Arrays \cup
    { [kind |-> "str", str |-> "identity", arr |-> <<>>, castable |-> TRUE],
      [kind |-> "str", str |-> "l1", arr |-> <<>>, castable |-> TRUE],
      [kind |-> "none", str |-> "", arr |-> <<>>, castable |-> TRUE] }

InitPenalty ==
    /\ hp \in { [Defaults EXCEPT !.P1 = w, !.alpha = Some(a), !.l1_ratio = l,
                                 !.check_input = ci] :
                  w \in P1Specs, a \in 0..2, l \in 0..L1Den, ci \in BOOLEAN }
    /\ args \in { [NoArgs EXCEPT !.n_features = 2, !.coef = <<0, 0>>,
                                  !.stationary = st] :
                  st \in {{}, {<<1, 1>>}, {<<0, 0>>}} }
    /\ InitCommon

NextPenalty ==
    \/ Validate
    \/ SetUpForFit
    \/ SetupPenalty
    \/ FitCallSolve
    \/ SolveEnter
    \/ IrlsIterate
    \/ IrlsExit
    \/ FitReturn

SpecPenalty == InitPenalty /\ [][NextPenalty]_vars

---------------------------------------------------------------------------
(* Two fits that differ by a rescaling of the penalty: the second          *)
(* estimator has alpha / k and the weights times k.                        *)

P2Matrices ==
    { [kind |-> "array", str |-> "", arr |-> [ndim |-> 2, v |-> m]] :
        m \in [1..2 -> [1..2 -> {-1, 0, 2}]] \cup { << <<1, 2>> >> } }

P2Vectors ==
    { [kind |-> "array", str |-> "", arr |-> [ndim |-> 1, v |-> a]] :
        a \in { <<1, 2>>, <<1>> } }
    \cup
    { [kind |-> "str", str |-> "identity", arr |-> [ndim |-> 1, v |-> <<>>]],
      [kind |-> "str", str |-> "l2", arr |-> [ndim |-> 1, v |-> <<>>]],
      [kind |-> "none", str |-> "", arr |-> [ndim |-> 1, v |-> <<>>]] }

ScalingFactors == {1, 2}

RescaledPenalty(h, n_features, k) ==
    [h EXCEPT !.alpha = Some(Val(h.alpha) \div k),
              !.P1 = [kind |-> "array", str |-> "",
                      arr |-> Scale(k, P1Weights(h.P1, n_features)),
                      castable |-> TRUE],
              !.P2 = [kind |-> "array", str |-> "",
                      arr |-> ScaleP2(k, IF h.P2.kind = "array" THEN h.P2.arr
                                         ELSE [ndim |-> 1, v |-> Ones(n_features)])]]

FitRescaled ==
    /\ pc = "done"
    /\ Len(calls) = 1
    /\ \E k \in ScalingFactors :
         /\ Val(hp.alpha) % k = 0
         /\ hp' = RescaledPenalty(hp, args.n_features, k)
    /\ self' = Unfitted
    /\ pc' = "new"
    /\ irls' = NoIrls
    /\ path' = NoPath
    /\ UNCHANGED <<args, err, calls>>

P2Fits(specs) ==
    { [Defaults EXCEPT !.P1 = w, !.P2 = q, !.alpha = Some(a), !.l1_ratio = l] :
        w \in { [kind |-> "str", str |-> "identity", arr |-> <<>>,
                 castable |-> TRUE],
                [kind |-> "array", str |-> "", arr |-> <<1, 2>>,
                 castable |-> TRUE] },
        q \in specs, a \in {2}, l \in 0..L1Den }

InitP2 ==
    /\ \/ hp \in P2Fits(P2Matrices)
       \/ hp \in P2Fits(P2Vectors)
    /\ args = [NoArgs EXCEPT !.n_features = 2, !.coef = <<0, 0>>,
                               !.stationary = {<<1, 1>>}]
    /\ InitCommon

NextP2 ==
    \/ Validate
    \/ SetUpForFit
    \/ SetupPenalty
    \/ FitCallSolve
    \/ SolveEnter
    \/ IrlsIterate
    \/ IrlsExit
    \/ FitReturn
    \/ FitRescaled

SpecP2 == InitP2 /\ [][NextP2]_vars

---------------------------------------------------------------------------
(* SpecAlpha: a path search that asks _get_alpha_path for its grid, over   *)
(* n_alphas, min_alpha, min_alpha_ratio, the L1 weights and the data.      *)

XSamples == { << <<1, 1>>, <<0, -1>> >>, << <<1, 0>>, <<0, 1>> >> }

AlphaYSamples == {<<1, 2>>, <<1, 1>>}

OffsetSamples == {None, Some(<<1, 0>>)}

MinAlphaSamples == {None, Some(Rat(1, 4)), Some(Rat(1, 2)), Some(Rat(FallbackAlphaMax, 1))}

MinAlphaRatioSamples == {None, Some(Rat(1, 2)), Some(Rat(1, 1)), Some(Rat(2, 1))}

AlphaP1Samples ==
    { [kind |-> "str", str |-> "identity", arr |-> <<>>, castable |-> TRUE] }
    \cup { [kind |-> "array", str |-> "", arr |-> a, castable |-> TRUE] :
             a \in {<<0, 1>>, <<1, 1>>, <<-1, 0>>, <<-1, 1>>} }

InitAlpha ==
    /\ hp \in { [Defaults EXCEPT !.alpha_search = TRUE, !.l1_ratio = l, !.P1 = w,
                                 !.check_input = ci, !.fit_intercept = fi,
                                 !.n_alphas = n, !.min_alpha = ma,
                                 !.min_alpha_ratio = mr] :
                  l \in {0, L1Den}, w \in AlphaP1Samples, ci \in BOOLEAN,
                  fi \in BOOLEAN, n \in 0..MaxNAlphas, ma \in MinAlphaSamples,
                  mr \in MinAlphaRatioSamples }
    /\ args \in { [NoArgs EXCEPT !.n_features = 2, !.coef = <<0, 0>>, !.X = X,
                                  !.y = y, !.offset = o] :
                  X \in XSamples, y \in AlphaYSamples, o \in OffsetSamples }
    /\ InitCommon

NextAlpha ==
    \/ Validate
    \/ SetUpForFit
    \/ SetupPenalty
    \/ GetAlphaPath

SpecAlpha == InitAlpha /\ [][NextAlpha]_vars

---------------------------------------------------------------------------
(* Back from the standardized to the raw coordinates at the end of fit.    *)
(* The raw coefficients are fractions <<n, d>> in lowest terms, d > 0.     *)

(* coef_raw = coef_std / std,                                              *)
(* intercept_raw = intercept_std - sum of coef_std * mean / std            *)
_unstandardize(col_means, col_stds, intercept, coef) ==
    LET Frac(n, d) == LET g == Gcd(Abs(n), d) IN <<n \div g, d \div g>>
        std(j) == IF col_stds = None THEN 1 ELSE Val(col_stds)[j]
        RECURSIVE Prod(_)
        Prod(j) == IF j = 0 THEN 1 ELSE std(j) * Prod(j - 1)
        D == Prod(Len(coef))
    IN  [ intercept |->
            Frac(intercept * D
                   - SumSeq([j \in DOMAIN coef |->
                               coef[j] * col_means[j] * (D \div std(j))]), D),
          coef |-> [j \in DOMAIN coef |-> Frac(coef[j], std(j))] ]

(* fit: intercept_ and coef_ are split off the solution and, when the      *)
(* predictors were centered, taken back to the raw coordinates.            *)
FitUnstandardize ==
    /\ pc = "solved"
    /\ path.mode = "single"
    /\ LET intercept == IF hp.fit_intercept THEN path.coef[1] ELSE 0
           slopes == IF hp.fit_intercept THEN Tail(path.coef) ELSE path.coef
           r == IF self._center_predictors
                THEN _unstandardize(args.col_means, args.col_stds, intercept, slopes)
                ELSE [intercept |-> <<intercept, 1>>,
                      coef |-> [j \in DOMAIN slopes |-> <<slopes[j], 1>>]]
       IN  self' = [self EXCEPT !.intercept_ = Some(r.intercept),
                                !.coef_ = Some(r.coef)]
    /\ pc' = "done"
    /\ UNCHANGED <<hp, args, err, irls, path, calls>>

---------------------------------------------------------------------------
(* SpecRoundTrip: one fit from given start_params over two columns with    *)
(* their means and standard deviations; the start is a stationary point    *)
(* of the problem or not.                                                  *)

InitRoundTrip ==
    /\ \E fi \in BOOLEAN, scale \in BOOLEAN, atStart \in BOOLEAN,
          cm \in [1..2 -> {-1, 3}], cs \in {<<1, 2>>, <<3, 2>>, <<2, 2>>} :
         \E vals \in [1..(IF fi THEN 3 ELSE 2) -> {-1, 0, 2}] :
           /\ hp = [Defaults EXCEPT !.start_params = Some([ndim |-> 1, vals |-> vals]),
                                    !.fit_intercept = fi,
                                    !.scale_predictors = scale,
                                    !.alpha = Some(0)]
           /\ args = [NoArgs EXCEPT
                        !.n_features = 2, !.col_means = cm,
                        !.col_stds = IF scale THEN Some(cs) ELSE None,
                        !.stationary =
                           IF ~atStart THEN {}
                           ELSE IF fi
                           THEN {standardize_warm_start(
                                    vals, cm, IF scale THEN Some(cs) ELSE None)}
                           ELSE {vals}]
    /\ InitCommon

NextRoundTrip ==
    \/ Validate
    \/ SetUpForFit
    \/ SetupPenalty
    \/ GetStartCoef
    \/ SolveEnter
    \/ IrlsIterate
    \/ IrlsExit
    \/ FitUnstandardize

SpecRoundTrip == InitRoundTrip /\ [][NextRoundTrip]_vars

---------------------------------------------------------------------------
(* SpecStart: one fit of a new or an already fitted estimator, over        *)
(* start_params, warm_start, fit_intercept and the bounds.                 *)

StartParamSamples ==
    { None,
      Some([ndim |-> 1, vals |-> <<1>>]),
      Some([ndim |-> 1, vals |-> <<0, 1>>]),
      Some([ndim |-> 1, vals |-> <<0, 1, 1>>]),
      Some([ndim |-> 2, vals |-> <<0, 1>>]) }

(* The attributes an earlier fit of one feature has left.                  *)
FittedBefore ==
    [SetUpAttrs(Defaults, Unfitted, <<0>>) EXCEPT
        !.n_iter_ = 1, !.coef_ = Some(<<1>>), !.intercept_ = Some(1)]

InitStart ==
    /\ hp \in { [Defaults EXCEPT !.warm_start = ws, !.start_params = sp,
                                 !.fit_intercept = fi, !.upper_bounds = ub,
                                 !.lower_bounds = lb, !.alpha = Some(1)] :
                  ws \in BOOLEAN, sp \in StartParamSamples, fi \in BOOLEAN,
                  ub \in OptArrays, lb \in {None, Some(<<0>>), Some(<<1>>)} }
    /\ args \in { [NoArgs EXCEPT !.col_means = cm, !.intercept_guess = g,
                                  !.stationary = {}] :
                  cm \in {<<0>>, <<1>>}, g \in {0, 1} }
    /\ self \in {Unfitted, FittedBefore}
    /\ pc = "new"
    /\ err = NoError
    /\ irls = NoIrls
    /\ path = NoPath
    /\ calls = <<>>

NextStart ==
    \/ Validate
    \/ SetUpForFit
    \/ SetupPenalty
    \/ GetStartCoef
    \/ SolveEnter
    \/ IrlsIterate
    \/ IrlsExit
    \/ FitReturn

SpecStart == InitStart /\ [][NextStart]_vars

---------------------------------------------------------------------------
(* covariance_matrix.  A request q holds the arguments of the call: X is   *)
(* None or [rows, singular], y is given or not, other stands for offset,   *)
(* mu and dispersion.  A covariance matrix is the record of how it was     *)
(* computed: the estimator, the information matrix of the sandwich, the    *)
(* finite-sample correction as a fraction, and the data.                   *)

(* lines 1392-1400                                                         *)
Penalized_AlphaOnly(h, s) == h.alpha # None /\ Val(h.alpha) > 0

Penalized(h, s) ==
    \/ h.alpha # None /\ Val(h.alpha) > 0
    \/ s.alpha_ # None /\ Val(s.alpha_) > 0
    \/ s._alphas # None /\ Val(s._alphas)[Len(Val(s._alphas))] > 0

(* lines 1499, 1522                                                        *)
Estimator_RobustFirst(robust, clusters) ==
    IF robust THEN "robust"
    ELSE IF clusters # None THEN "clustered" ELSE "non-robust"

Estimator(robust, clusters) ==
    IF robust \/ clusters # None
    THEN IF clusters # None THEN "clustered" ELSE "robust"
    ELSE "non-robust"

(* lines 1523-1534 and 1548-1550, for N = sum_weights, p coefficients and  *)
(* M groups.                                                               *)
Correction(estimator, N, p, M) ==
    IF estimator = "clustered"
    THEN RatMul(Rat(M, M - 1), Rat(N - 1, N - p))
    ELSE Rat(N, N - p)

CannotEstimate_XOnly(q) == q.X = None

(* lines 1407-1408, for an estimator without y_model_spec_                 *)
CannotEstimate(q) == ~q.y \/ q.X = None

(* lines 1428-1443: the stored matrix is handed back.                      *)
ReturnsStored(q) == q.X = None /\ ~q.y

(* lines 1552-1553                                                         *)
Stores_Always(q) == TRUE

Stores(q) == q.store_covariance_matrix

(* One call of covariance_matrix on the estimator (h, s); t is the type of *)
(* the error of check_X_y_tabmat_compliant when X or y is missing.         *)
covariance_matrix(h, s, q, t) ==
    LET _robust == IF q.robust = None THEN h.robust ELSE Val(q.robust)
        _expected_information ==
            IF q.expected_information = None THEN h.expected_information
            ELSE Val(q.expected_information)
        w1 == IF Penalized(h, s) THEN {"penalized"} ELSE {}
        cannot_estimate_cov == CannotEstimate(q)
        stored == s.covariance_matrix_
        w2 == IF q.store_covariance_matrix /\ stored # None
              THEN w1 \cup {"overwritten"} ELSE w1
        Raise(type, at, w) ==
            [error |-> type, at |-> at, value |-> None, warned |-> w,
             stored |-> stored, computed |-> FALSE]
        sum_weights == IF q.sample_weight = None THEN Val(q.X).rows
                       ELSE SumSeq(Val(q.sample_weight))
        p == s.n_features_in_ + (IF h.fit_intercept THEN 1 ELSE 0)
        est == Estimator(_robust, q.clusters)
        n_groups == Cardinality({Val(q.clusters)[i] : i \in DOMAIN Val(q.clusters)})
        vcov ==
            [estimator |-> est,
             information |-> IF est = "non-robust" \/ _expected_information
                             THEN "fisher" ELSE "observed",
             correction |-> Correction(est, sum_weights, p, n_groups),
             X |-> Val(q.X),
             sample_weight |-> q.sample_weight]
    IN  IF cannot_estimate_cov /\ stored = None
        THEN Raise("ValueError", "covariance_matrix", w1)
        ELSE IF cannot_estimate_cov /\ q.store_covariance_matrix
        THEN Raise("ValueError", "covariance_matrix", w1)
        ELSE IF ReturnsStored(q)
        THEN IF \/ q.other \/ q.sample_weight # None \/ q.robust # None
                \/ q.clusters # None \/ q.expected_information # None
             THEN Raise("ValueError", "covariance_matrix", w2)
             ELSE [error |-> "none", at |-> "none", value |-> stored,
                   warned |-> w2, stored |-> stored, computed |-> FALSE]
        ELSE IF q.X = None \/ ~q.y
        THEN Raise(t, "check_X_y_tabmat_compliant", w2)
        ELSE IF Val(q.X).singular
        THEN Raise("LinAlgError", "covariance_matrix", w2)
        ELSE IF est = "clustered" /\ n_groups = 1
        THEN Raise("ZeroDivisionError", "covariance_matrix", w2)
        ELSE [error |-> "none", at |-> "none", value |-> Some(vcov),
              warned |-> w2,
              stored |-> IF Stores(q) THEN Some(vcov) ELSE stored,
              computed |-> TRUE]

CheckErrors == {"ValueError", "TypeError"}

(* The end of a call made through the method via: the estimator keeps what *)
(* the call stored, the caller holds the outcome.                          *)
CovReturn(via, q, out) ==
    /\ pc = "fitted"
    /\ self' = [self EXCEPT !.covariance_matrix_ = out.stored]
    /\ calls' = <<[via |-> via, q |-> q, out |-> out,
                   before |-> self.covariance_matrix_]>>
    /\ pc' = "returned"
    /\ UNCHANGED <<hp, args, err, irls, path>>

CallCovarianceMatrix(Q) ==
    /\ pc = "fitted"
    /\ \E q \in Q, t \in CheckErrors :
           CovReturn("covariance_matrix", q, covariance_matrix(hp, self, q, t))

(* std_errors hands all its arguments on.                                  *)
CallStdErrors(Q) ==
    /\ pc = "fitted"
    /\ \E q \in Q, t \in CheckErrors :
           CovReturn("std_errors", q, covariance_matrix(hp, self, q, t))

(* coef_table gives the bare coefficients when there is neither X nor a    *)
(* stored matrix, and never asks for the matrix to be stored.              *)
CallCoefTable(Q) ==
    /\ pc = "fitted"
    /\ \E q \in Q, t \in CheckErrors :
           /\ ~q.store_covariance_matrix
           /\ CovReturn("coef_table", q,
                 IF q.X = None /\ self.covariance_matrix_ = None
                 THEN [error |-> "none", at |-> "none", value |-> None, warned |-> {},
                       stored |-> self.covariance_matrix_, computed |-> FALSE]
                 ELSE covariance_matrix(hp, self, q, t))

(* wald_test.  A hypothesis hyp holds R (a sequence of rows), features,    *)
(* terms (sequences of names), formula (the restriction [R, r] that the    *)
(* parser reads from it) and r; an array is [ndim, vals].                  *)

(* line 1013                                                               *)
num_lhs_specs(hyp) ==
    Cardinality({f \in {"R", "features", "terms", "formula"} : hyp[f] # None})

OneLhs_AtLeastOne(hyp) == num_lhs_specs(hyp) >= 1

(* line 1021                                                               *)
OneLhs(hyp) == num_lhs_specs(hyp) = 1

(* np.asarray of the argument r: None becomes an array of no dimension     *)
(* that holds None.                                                        *)
asarray(r) ==
    IF r = None THEN Some([ndim |-> 0, vals |-> <<>>])
    ELSE Some([ndim |-> 1, vals |-> Val(r)])

(* The names of the coefficients, and the rows of R that pick the          *)
(* coefficients of the name x, in the order of the coefficients.           *)
CoefNames(h, names) == IF h.fit_intercept THEN <<"intercept">> \o names ELSE names

RowsOf(names, x) ==
    LET I == {j \in DOMAIN names : names[j] = x}
        Nth(k) == CHOOSE j \in I : Cardinality({i \in I : i < j}) = k - 1
    IN  [k \in 1..Cardinality(I) |->
           [c \in DOMAIN names |-> IF c = Nth(k) THEN 1 ELSE 0]]

RECURSIVE Concat(_)
Concat(ss) == IF ss = <<>> THEN <<>> ELSE Head(ss) \o Concat(Tail(ss))

(* _wald_test_matrix, given the outcome cov of its call of                 *)
(* covariance_matrix.                                                      *)
_wald_test_matrix(h, s, dispatch, R, r, cov) ==
    LET Raise(type) == [cov EXCEPT !.error = type, !.at = "_wald_test_matrix",
                                   !.value = None]
        r0 == IF r = None
              THEN [ndim |-> 1, vals |-> [i \in DOMAIN R |-> 0]] ELSE Val(r)
        n_beta == s.n_features_in_ + (IF h.fit_intercept THEN 1 ELSE 0)
    IN  IF cov.error # "none" THEN cov
        ELSE IF r0.ndim = 0 THEN Raise("IndexError")
        ELSE IF Len(R) # Len(r0.vals) THEN Raise("ValueError")
        ELSE IF Len(R[1]) # n_beta THEN Raise("ValueError")
        ELSE IF \E i, j \in DOMAIN R : i # j /\ R[i] = R[j]
        THEN Raise("LinAlgError")
        ELSE [cov EXCEPT !.value =
                Some([dispatch |-> dispatch, R |-> R, r |-> r0.vals, df |-> Len(R)])]

(* wald_test with its helpers _wald_test_feature_names,                    *)
(* _wald_test_term_names and _wald_test_formula; cov is the outcome of     *)
(* covariance_matrix with the arguments handed on, which is only called    *)
(* from _wald_test_matrix.                                                 *)
wald_test(h, s, hyp, cov) ==
    LET Raise(at) ==
            [error |-> "ValueError", at |-> at, value |-> None, warned |-> {},
             stored |-> s.covariance_matrix_, computed |-> FALSE]
        fnames == CoefNames(h, s.feature_names_)
        tnames == CoefNames(h, s.term_names_)
    IN  IF ~OneLhs(hyp) THEN Raise("wald_test")
        ELSE IF hyp.R # None
        THEN _wald_test_matrix(h, s, "R", Val(hyp.R), asarray(hyp.r), cov)
        ELSE IF hyp.features # None
        THEN LET features == Val(hyp.features) IN
             IF hyp.r # None /\ Len(features) # Len(Val(hyp.r))
             THEN Raise("_wald_test_feature_names")
             ELSE IF \E i \in DOMAIN features : RowsOf(fnames, features[i]) = <<>>
             THEN Raise("_wald_test_feature_names")
             ELSE _wald_test_matrix(h, s, "features",
                     [i \in DOMAIN features |-> RowsOf(fnames, features[i])[1]],
                     IF hyp.r = None THEN None ELSE asarray(hyp.r), cov)
        ELSE IF hyp.terms # None
        THEN LET terms == Val(hyp.terms) IN
             IF hyp.r # None /\ Len(terms) # Len(Val(hyp.r))
             THEN Raise("_wald_test_term_names")
             ELSE IF \E i \in DOMAIN terms : RowsOf(tnames, terms[i]) = <<>>
             THEN Raise("_wald_test_term_names")
             ELSE _wald_test_matrix(h, s, "terms",
                     Concat([i \in DOMAIN terms |-> RowsOf(tnames, terms[i])]),
                     IF hyp.r = None THEN None
                     ELSE Some([ndim |-> 1,
                                vals |-> Concat([i \in DOMAIN terms |->
                                    [k \in DOMAIN RowsOf(tnames, terms[i]) |->
                                        Val(hyp.r)[i]]])]),
                     cov)
        ELSE IF hyp.r # None THEN Raise("wald_test")
        ELSE _wald_test_matrix(h, s, "formula", Val(hyp.formula).R,
                               asarray(Some(Val(hyp.formula).r)), cov)

(* wald_test never asks for the matrix to be stored.                       *)
CallWaldTest(Q, H) ==
    /\ pc = "fitted"
    /\ \E q \in Q, hyp \in H, t \in CheckErrors :
           /\ ~q.store_covariance_matrix
           /\ CovReturn("wald_test", [q EXCEPT !.hyp = hyp],
                        wald_test(hp, self, hyp, covariance_matrix(hp, self, q, t)))

(* The caller takes the outcome; the estimator is ready for the next call. *)
TakeResult ==
    /\ pc = "returned"
    /\ pc' = "fitted"
    /\ calls' = <<>>
    /\ UNCHANGED <<hp, self, args, err, irls, path>>

---------------------------------------------------------------------------
(* SpecCov: calls of covariance_matrix, std_errors, coef_table and         *)
(* wald_test, one after the other, on a fitted estimator of two features   *)
(* that belong to one term.                                                *)

Fitted ==
    [SetUpAttrs(Defaults, Unfitted, <<0>>) EXCEPT
        !.n_iter_ = 1, !.coef_ = Some(<<1, 0>>), !.intercept_ = Some(1),
        !.n_features_in_ = 2, !.feature_names_ = <<"c[a]", "c[b]">>,
        !.term_names_ = <<"c", "c">>]

(* alpha, alpha_ and _alphas of a plain fit, a cross-validated fit and a   *)
(* search path.                                                            *)
PenaltySamples ==
    { <<Some(1), None, None>>,
      <<None, Some(0), None>>,
      <<None, Some(1), None>>,
      <<None, None, Some(<<2, 1>>)>>,
      <<None, None, Some(<<1, 0>>)>> }

CovFits ==
    { <<[Defaults EXCEPT !.robust = r, !.expected_information = e,
                         !.fit_intercept = fi, !.alpha = Some(0)], Fitted>> :
        r \in BOOLEAN, e \in BOOLEAN, fi \in BOOLEAN }
    \cup
    { <<[Defaults EXCEPT !.alpha = c[1], !.alpha_search = (c[3] # None)],
        [Fitted EXCEPT !.alpha_ = c[2], !._alphas = c[3]]>> :
        c \in PenaltySamples }

OptBool == {None, Some(TRUE), Some(FALSE)}

CovRequests ==
    [ X : {None, Some([rows |-> 4, singular |-> FALSE]),
                 Some([rows |-> 4, singular |-> TRUE])},
      y : BOOLEAN,
      sample_weight : {None, Some(<<2, 1, 1, 2>>)},
      other : BOOLEAN,
      robust : OptBool,
      clusters : {None, Some(<<1, 1, 1, 1>>), Some(<<1, 2, 1, 1>>)},
      expected_information : OptBool,
      store_covariance_matrix : BOOLEAN,
      hyp : {None} ]

NoHyp == [R |-> None, features |-> None, terms |-> None, formula |-> None, r |-> None]

InitCov ==
    /\ \E f \in CovFits : hp = f[1] /\ self = f[2]
    /\ args = NoArgs
    /\ pc = "fitted"
    /\ err = NoError
    /\ irls = NoIrls
    /\ path = NoPath
    /\ calls = <<>>

(* The calls through std_errors, coef_table and wald_test take the model's *)
(* robust and expected_information and no clusters or weights.             *)
PlainRequests ==
    {q \in CovRequests : /\ q.robust = None /\ q.expected_information = None
                         /\ q.clusters = None /\ q.sample_weight = None}

NextCov ==
    \/ CallCovarianceMatrix(CovRequests)
    \/ CallStdErrors(PlainRequests)
    \/ CallCoefTable(PlainRequests)
    \/ CallWaldTest(PlainRequests, {[NoHyp EXCEPT !.features = Some(<<"c[a]">>)]})
    \/ TakeResult

SpecCov == InitCov /\ [][NextCov]_vars

---------------------------------------------------------------------------
(* SpecWald: calls of wald_test over the ways of giving the hypothesis, on *)
(* a fitted estimator with or without a stored covariance matrix.          *)

WaldHyps ==
    [ R : {None, Some(<<<<0, 1, 0>>>>), Some(<<<<0, 1>>>>),
                 Some(<<<<0, 1, 0>>, <<0, 0, 1>>>>),
                 Some(<<<<0, 1, 0>>, <<0, 1, 0>>>>)},
      features : {None, Some(<<"c[a]">>), Some(<<"c[a]", "c[b]">>), Some(<<"zz">>)},
      terms : {None, Some(<<"c">>), Some(<<"zz">>)},
      formula : {None, Some([R |-> <<<<0, 1, 0>>>>, r |-> <<1>>])},
      r : {None, Some(<<0>>), Some(<<1, 1>>)} ]

WaldRequests == {q \in PlainRequests : ~q.other /\ (q.X = None <=> ~q.y)}

InitWald ==
    /\ hp \in {[Defaults EXCEPT !.fit_intercept = fi, !.alpha = Some(0)] :
                 fi \in BOOLEAN}
    /\ self \in {Fitted,
                 [Fitted EXCEPT !.covariance_matrix_ =
                     Some([estimator |-> "robust", information |-> "observed",
                           correction |-> Rat(4, 1),
                           X |-> [rows |-> 4, singular |-> FALSE],
                           sample_weight |-> None])]}
    /\ args = NoArgs
    /\ pc = "fitted"
    /\ err = NoError
    /\ irls = NoIrls
    /\ path = NoPath
    /\ calls = <<>>

NextWald ==
    \/ CallWaldTest(WaldRequests, WaldHyps)
    \/ TakeResult

SpecWald == InitWald /\ [][NextWald]_vars

---------------------------------------------------------------------------
(* Properties of the choice of the solver.                                 *)

SetUpRan == self._solver # "unset"

BothIneq(h) == (h.A_ineq # None) /\ (h.b_ineq # None)

AlphaIsZero(h) == h.alpha # None /\ Val(h.alpha) = 0 /\ ~h.alpha_search

C1_Table(h) ==
    IF BothIneq(h) THEN "trust-constr"
    ELSE IF HasBounds(h) \/ h.l1_ratio # 0 THEN "irls-cd"
    ELSE "irls-ls"

C1_TableAmended(h) ==
    IF BothIneq(h) THEN "trust-constr"
    ELSE IF HasBounds(h) \/ (h.l1_ratio # 0 /\ ~AlphaIsZero(h)) THEN "irls-cd"
    ELSE "irls-ls"

(* C1 as stated: with solver = "auto" the solver set by _set_up_for_fit is *)
(* trust-constr with both inequality arrays, else irls-cd with a box bound *)
(* or a nonzero l1_ratio, else irls-ls; lbfgs is never picked and an       *)
(* explicit solver is kept.                                                *)
C1_AutoTable_AsStated ==
    SetUpRan =>
        IF hp.solver = "auto"
        THEN self._solver = C1_Table(hp) /\ self._solver # "lbfgs"
        ELSE self._solver = hp.solver

(* C1 amended: as C1, but a nonzero l1_ratio picks irls-cd only unless the *)
(* estimator has alpha == 0 and alpha_search is off, in which case irls-ls *)
(* is picked.                                                              *)
C1_AutoTable ==
    SetUpRan =>
        IF hp.solver = "auto"
        THEN self._solver = C1_TableAmended(hp) /\ self._solver # "lbfgs"
        ELSE self._solver = hp.solver

C1_Witness ==
    /\ SetUpRan
    /\ hp.solver = "auto"
    /\ hp.l1_ratio # 0
    /\ AlphaIsZero(hp)
    /\ ~HasBounds(hp)
    /\ self._solver = "irls-ls"

Honors(h, solver) ==
    /\ HasBounds(h) => solver = "irls-cd"
    /\ HasIneq(h) => solver = "trust-constr"

(* C2: once _validate_hyperparameters has accepted the configuration and   *)
(* _set_up_for_fit has run, bounds imply _solver = irls-cd and inequality  *)
(* constraints imply _solver = trust-constr, and every call of _solve is   *)
(* made with such a solver.                                                *)
C2_SolverHonorsConstraints ==
    /\ SetUpRan => Honors(hp, self._solver)
    /\ \A i \in DOMAIN calls : Honors(hp, calls[i].call.solver)

C2_Witness ==
    /\ hp.solver = "auto"
    /\ hp.upper_bounds # None
    /\ calls # <<>>
    /\ calls[1].call.solver = "irls-cd"
    /\ calls[1].call.upper_bounds = hp.upper_bounds

(* C9 as stated: whatever the other hyperparameters, a response out of the *)
(* family's range makes _set_up_for_fit raise ValueError, and no solver is *)
(* called.                                                                 *)
C9_YRejected_AsStated ==
    (SetUpRan /\ ~in_y_range(self._family_instance, args.y)) =>
        /\ pc = "failed"
        /\ err = Raised("ValueError", "_set_up_for_fit")
        /\ calls = <<>>

(* C9 amended: when check_input is true, a response out of the family's    *)
(* range makes _set_up_for_fit raise ValueError before any solver is       *)
(* called; when check_input is false the response is not checked.          *)
C9_YRejected ==
    (SetUpRan /\ ~in_y_range(self._family_instance, args.y)) =>
        IF hp.check_input
        THEN /\ pc = "failed"
             /\ err = Raised("ValueError", "_set_up_for_fit")
             /\ calls = <<>>
        ELSE err.at # "_set_up_for_fit"

C9_Witness ==
    /\ SetUpRan
    /\ hp.check_input
    /\ ~in_y_range(self._family_instance, args.y)
    /\ pc = "failed"
    /\ err = Raised("ValueError", "_set_up_for_fit")

---------------------------------------------------------------------------
(* Properties of the path, of _solve and of the penalty set-up.            *)

(* C3: the passes of _solve_regularization_path are made in the order of   *)
(* alphas, one _solve each; the first starts from the coef argument, each  *)
(* later one from the coefficients the pass before returned; row k of      *)
(* coef_path_ holds what the solve for alphas[k] returned, and on return   *)
(* there are len(alphas) rows, all of them written.                        *)
C3_WarmStartPath ==
    path.mode = "path" =>
        /\ \A i \in DOMAIN calls :
             /\ calls[i].k = i - 1
             /\ calls[i].call.P1 = Scale(Val(args.alphas)[i], path.P1_no_alpha)
             /\ calls[i].call.coef =
                  IF i = 1 THEN args.coef ELSE Val(calls[i - 1].result)
        /\ \A i \in 1..path.k :
             /\ i <= Len(calls)
             /\ calls[i].result # None
             /\ self.coef_path_[i] = Val(calls[i].result)
        /\ pc = "done" =>
             /\ path.k = Len(Val(args.alphas))
             /\ Len(self.coef_path_) = Len(Val(args.alphas))
             /\ Len(calls) = Len(Val(args.alphas))

C3_Witness ==
    /\ path.mode = "path"
    /\ pc = "done"
    /\ Len(calls) = 2
    /\ calls[2].call.coef # args.coef
    /\ calls[2].call.coef = self.coef_path_[1]
    /\ self.coef_path_[2] # self.coef_path_[1]

SolverRaised == pc = "failed" /\ err.at = "_least_squares_solver"

IrlsTerminal ==
    \/ pc \in {"solved", "done"}
    \/ SolverRaised

NormalIdentity(s) ==
    s._family_instance = "NormalDistribution" /\ s._link_instance = "IdentityLink"

ForcedOneStep(c) ==
    /\ c.max_iter = 1
    /\ c.fixed_inner_tol = Some(<<self._gradient_tol, hp.step_size_tol>>)

AsConfigured(c) ==
    /\ c.max_iter = hp.max_iter
    /\ c.fixed_inner_tol = None

(* C8 as stated: with Normal and Identity and no bounds and no inequality  *)
(* constraints every call of the solver has max_iter = 1 and the fixed     *)
(* inner tolerance; with any other family/link pair it has the configured  *)
(* max_iter and no fixed inner tolerance.                                  *)
C8_OneStep_AsStated ==
    \A i \in DOMAIN calls :
        /\ (NormalIdentity(self) /\ ~HasBounds(hp) /\ ~HasIneq(hp)) =>
               ForcedOneStep(calls[i].call)
        /\ ~NormalIdentity(self) => AsConfigured(calls[i].call)

(* C8 amended: with Normal and Identity and an IRLS solver (irls-ls or     *)
(* irls-cd, with or without bounds) every call of the solver has           *)
(* max_iter = 1 and the fixed inner tolerance (gradient_tol,               *)
(* step_size_tol); with any other family/link pair, and with lbfgs or      *)
(* trust-constr, it has the configured max_iter and no fixed tolerance.    *)
C8_OneStep ==
    \A i \in DOMAIN calls :
        IF NormalIdentity(self) /\ calls[i].call.solver \in {"irls-ls", "irls-cd"}
        THEN ForcedOneStep(calls[i].call)
        ELSE AsConfigured(calls[i].call)

C8_Witness ==
    /\ calls # <<>>
    /\ NormalIdentity(self)
    /\ calls[1].call.solver = "lbfgs"
    /\ ~HasBounds(hp) /\ ~HasIneq(hp)
    /\ hp.max_iter = 2
    /\ calls[1].call.max_iter = 2

HasNegative(v) == \E i \in DOMAIN v : v[i] < 0

BeforeSetupP1 == pc \in {"new", "validated", "set_up"}

(* C10 as stated: with a negative entry in the P1 given, setup_p1 does not *)
(* return (the fit fails), and no solver is called with a negative weight. *)
C10_NegativeP1_AsStated ==
    /\ (hp.P1.kind = "array" /\ HasNegative(hp.P1.arr)) =>
           (BeforeSetupP1 \/ pc = "failed")
    /\ \A i \in DOMAIN calls : ~HasNegative(calls[i].call.P1)

(* C10 amended: with check_input true, a negative entry in the P1 given    *)
(* makes _validate_hyperparameters raise ValueError before setup_p1 or a   *)
(* solver runs, so no negative weight reaches a solver; setup_p1 itself    *)
(* does not look at the sign: for "identity", None or any vector of length *)
(* n_features it returns alpha * l1_ratio * weights.                       *)
C10_NegativeP1 ==
    /\ (hp.check_input /\ hp.P1.kind = "array" /\ HasNegative(hp.P1.arr)) =>
           \/ pc = "new"
           \/ pc = "failed" /\ err = Raised("ValueError", "_validate_hyperparameters")
    /\ hp.check_input => \A i \in DOMAIN calls : ~HasNegative(calls[i].call.P1)
    /\ (~BeforeSetupP1 /\ pc # "failed") =>
           /\ Len(path.P1) = args.n_features
           /\ \A j \in 1..args.n_features :
                path.P1[j] = Val(hp.alpha) * hp.l1_ratio
                               * (IF hp.P1.kind = "array" THEN hp.P1.arr[j] ELSE 1)

C10_Witness ==
    /\ ~hp.check_input
    /\ hp.P1.kind = "array"
    /\ HasNegative(hp.P1.arr)
    /\ calls # <<>>
    /\ HasNegative(calls[1].call.P1)

---------------------------------------------------------------------------
(* Properties of the grid of alphas.                                       *)

(* p < q for two points of one grid.                                       *)
PointLess(p, q) ==
    IF p.kind = "nan" \/ q.kind = "nan" THEN FALSE
    ELSE IF p.kind = "zero" THEN q.kind = "val"
    ELSE IF q.kind = "zero" THEN FALSE
    ELSE IF RatLess(p.stop, p.start) THEN p.num > q.num
    ELSE IF RatLess(p.start, p.stop) THEN p.num < q.num
    ELSE FALSE

(* The point p is the number r.                                            *)
PointIs(p, r) ==
    IF p.kind = "nan" THEN FALSE
    ELSE IF p.kind = "zero" THEN r[1] = 0
    ELSE \/ p.num = 0 /\ p.start = r
         \/ p.num = p.den /\ p.stop = r
         \/ p.start = r /\ p.stop = r

GridReturned == pc = "alphas"

(* C4: every grid _get_alpha_path returns has n_alphas elements, is        *)
(* strictly decreasing, starts at alpha_max and ends at min_alpha (the     *)
(* one given, or else alpha_max times min_alpha_ratio, 1e-6 by default).   *)
C4_Grid_AsStated ==
    GridReturned =>
        /\ Len(path.grid) = hp.n_alphas
        /\ \A i \in 1..(Len(path.grid) - 1) : PointLess(path.grid[i + 1], path.grid[i])
        /\ path.grid # <<>> =>
             /\ PointIs(path.grid[1], Val(path.alpha_max))
             /\ PointIs(path.grid[Len(path.grid)],
                        GridMinAlpha(hp, Val(path.alpha_max)))

(* n^2 times the derivative of the deviance in the intercept.              *)
InterceptDerN(h, a, coefN) ==
    -2 * SumSeq([i \in 1..NumObs(a) |-> NumObs(a) * a.y[i] - MuN(h, a, coefN, i)])

CoefNVals == -4..4

(* The coefficient vectors, n-fold, with every L1-penalized coefficient    *)
(* zero that are stationary in the intercept and in the unpenalized        *)
(* coefficients: the fits with no L1-penalized feature.                    *)
RestrictedSolutionsN(h, a, P1_no_alpha) ==
    LET io == IF h.fit_intercept THEN 1 ELSE 0 IN
    { c \in [1..(a.n_features + io) -> CoefNVals] :
        /\ \A j \in L1Mask(P1_no_alpha) : c[j + io] = 0
        /\ h.fit_intercept => InterceptDerN(h, a, c) = 0
        /\ \A j \in DOMAIN P1_no_alpha :
             j \notin L1Mask(P1_no_alpha) => DevDerN(h, a, c, j) = 0 }

(* |gradient_j| / 2 <= alpha * P1_no_alpha[j]                              *)
KktAt(h, a, coefN, alpha, P1_no_alpha, j) ==
    Abs(DevDerN(h, a, coefN, j)) * L1Den * alpha[2]
        <= 2 * NumObs(a) * NumObs(a) * alpha[1] * P1_no_alpha[j]

(* C5: at the alpha_max that _get_alpha_path computes, the fit with every  *)
(* L1-penalized coefficient zero satisfies the stationarity condition in   *)
(* every L1-penalized coordinate, also with unpenalized features and with  *)
(* an offset.                                                              *)
C5_KktAtAlphaMax_AsStated ==
    (GridReturned /\ L1Mask(path.P1_no_alpha) # {}) =>
        \A c \in RestrictedSolutionsN(hp, args, path.P1_no_alpha) :
            \A j \in L1Mask(path.P1_no_alpha) :
                KktAt(hp, args, c, Val(path.alpha_max), path.P1_no_alpha, j)

AlphaPathRan ==
    \/ pc = "alphas"
    \/ pc = "failed" /\ err.at \in {"_make_grid", "_get_alpha_path"}

(* C6: _get_alpha_path raises ValueError and returns no grid exactly when  *)
(* a min_alpha is given that is at least the maximum alpha, be that the    *)
(* value derived from the gradient or the fallback 10; with min_alpha None *)
(* that error is never raised.                                             *)
C6_MinAlphaRejected ==
    AlphaPathRan =>
        /\ (/\ hp.min_alpha # None
            /\ path.alpha_max # None
            /\ ~RatLess(Val(hp.min_alpha), Val(path.alpha_max)))
             <=> (pc = "failed" /\ err = Raised("ValueError", "_make_grid"))
        /\ err.at = "_make_grid" => path.grid = <<>>
        /\ hp.min_alpha = None => err.at # "_make_grid"
        /\ (path.alpha_max # None /\ L1Mask(path.P1_no_alpha) = {}) =>
             path.alpha_max = Some(Rat(FallbackAlphaMax, 1))

C6_Witness ==
    /\ pc = "failed"
    /\ err = Raised("ValueError", "_make_grid")
    /\ L1Mask(path.P1_no_alpha) # {}
    /\ hp.min_alpha = path.alpha_max
    /\ path.grid = <<>>

---------------------------------------------------------------------------
(* Properties of the rejection of conflicting constraints.                 *)

ValidateRan == pc # "new"

RejectedBy(t) ==
    /\ pc = "failed"
    /\ err = Raised(t, "_validate_hyperparameters")
    /\ self = Unfitted
    /\ calls = <<>>

(* C11 as stated: _validate_hyperparameters leaves the estimator as it was *)
(* and raises NotImplementedError for bounds together with an inequality   *)
(* constraint, ValueError for one of A_ineq / b_ineq without the other,    *)
(* ValueError for bounds with a solver other than auto / irls-cd, and      *)
(* ValueError for inequality constraints with a solver other than auto /   *)
(* trust-constr.                                                           *)
C11_ConflictsRejected_AsStated ==
    ValidateRan =>
        /\ (HasBounds(hp) /\ HasIneq(hp)) => RejectedBy("NotImplementedError")
        /\ IneqHalfGiven(hp) => RejectedBy("ValueError")
        /\ (HasBounds(hp) /\ hp.solver \notin {"auto", "irls-cd"}) =>
               RejectedBy("ValueError")
        /\ (HasIneq(hp) /\ hp.solver \notin {"auto", "trust-constr"}) =>
               RejectedBy("ValueError")

AnyConstraintConflict(h) ==
    \/ HasBounds(h) /\ HasIneq(h)
    \/ IneqHalfGiven(h)
    \/ HasBounds(h) /\ h.solver \notin {"auto", "irls-cd"}
    \/ HasIneq(h) /\ h.solver \notin {"auto", "trust-constr"}

(* C11 amended: every such conflict is rejected by                         *)
(* _validate_hyperparameters with the estimator left as it was; the checks *)
(* run in the order solver list, bounds against solver, inequality against *)
(* solver, bounds with inequality, half an inequality pair, and the first  *)
(* that fails decides the error: NotImplementedError exactly when bounds   *)
(* and an inequality constraint come with solver = auto, ValueError in     *)
(* every other conflict.                                                   *)
C11_ConflictsRejected ==
    (ValidateRan /\ AnyConstraintConflict(hp)) =>
        IF HasBounds(hp) /\ HasIneq(hp) /\ hp.solver = "auto"
        THEN RejectedBy("NotImplementedError")
        ELSE RejectedBy("ValueError")

C11_Witness ==
    /\ RejectedBy("NotImplementedError")
    /\ hp.solver = "auto"
    /\ IneqHalfGiven(hp)
    /\ HasBounds(hp)

---------------------------------------------------------------------------
(* Properties of the quasi-Newton solver.                                  *)

SolverRan == pc \in {"irls", "scipy", "solved", "done"} \/ calls # <<>>

L1PenaltyAsked(h) ==
    /\ h.l1_ratio > 0
    /\ h.alpha_search \/ h.alpha = None \/ Val(h.alpha) > 0
    /\ \E j \in 1..args.n_features : P1Weights(h.P1, args.n_features)[j] # 0

---------------------------------------------------------------------------
(* Properties of the start coefficients.                                   *)

GetStartCoefRan == pc \notin {"new", "validated", "set_up", "penalized"}

StartParamsMisshapen ==
    /\ hp.start_params # None
    /\ \/ Val(hp.start_params).ndim # 1
       \/ Len(Val(hp.start_params).vals)
            # args.n_features + (IF hp.fit_intercept THEN 1 ELSE 0)

StartRejected ==
    /\ pc = "failed"
    /\ err = Raised("ValueError", "_get_start_coef")
    /\ calls = <<>>

(* The start that the held intercept_ and coef_ give.                      *)
HeldStart ==
    ClipToBounds(hp,
       IF hp.fit_intercept
       THEN Standardized(hp, self, <<Val(self.intercept_)>> \o Val(self.coef_),
                         args.col_means)
       ELSE Val(self.coef_)).coef

(* C13 as stated: start_params of another shape than                       *)
(* (n_features + fit_intercept,) are rejected with ValueError before any   *)
(* solve, whatever warm_start is and whether or not coef_ is held.         *)
C13_StartShape_AsStated ==
    (GetStartCoefRan /\ StartParamsMisshapen) => StartRejected

(* C13 amended: such start_params are rejected with ValueError before any  *)
(* solve unless warm_start is set and the estimator holds coef_; then      *)
(* start_params are not looked at and the fit starts from the held         *)
(* intercept_ and coef_.                                                   *)
C13_StartShape ==
    (GetStartCoefRan /\ StartParamsMisshapen) =>
        IF hp.warm_start /\ self.coef_ # None
        THEN /\ err.at # "_get_start_coef"
             /\ pc = "solve" => path.coef = HeldStart
             /\ calls # <<>> => calls[1].call.coef = HeldStart
        ELSE StartRejected

C13_Witness ==
    /\ StartParamsMisshapen
    /\ hp.warm_start
    /\ self.coef_ # None
    /\ pc = "done"
    /\ calls # <<>>
    /\ Len(calls[1].call.coef) # Len(Val(hp.start_params).vals)

---------------------------------------------------------------------------
(* Properties of the covariance matrix.                                    *)

Last == calls[1]

(* covariance_matrix has computed and handed back a new matrix.            *)
Estimated ==
    /\ pc = "returned"
    /\ Last.out.error = "none"
    /\ Last.out.computed

LastN ==
    IF Last.q.sample_weight = None THEN Val(Last.q.X).rows
    ELSE SumSeq(Val(Last.q.sample_weight))

LastP == self.n_features_in_ + (IF hp.fit_intercept THEN 1 ELSE 0)

LastM == Cardinality({Val(Last.q.clusters)[i] : i \in DOMAIN Val(Last.q.clusters)})

(* C14 as stated: the correction of the matrix is N/(N - p) for the        *)
(* non-robust and the robust estimator and (M/(M-1)) * (N/(N - p)) for the *)
(* clustered one, N the sum of the weights, p the number of coefficients,  *)
(* M the number of clusters.                                               *)
C14_Correction_AsStated ==
    (Estimated /\ Last.via = "covariance_matrix") =>
        Val(Last.out.value).correction =
            IF Last.q.clusters # None
            THEN RatMul(Rat(LastM, LastM - 1), Rat(LastN, LastN - LastP))
            ELSE Rat(LastN, LastN - LastP)

(* The argument when it is given, the attribute of the model otherwise.    *)
Effective(arg, attribute) == IF arg = None THEN attribute ELSE Val(arg)

(* C15: a computed matrix is the clustered one when clusters are given,    *)
(* whatever robust is; the robust one when robust holds and there are no   *)
(* clusters; the non-robust inverse Fisher information otherwise.  robust  *)
(* and expected_information are the arguments when given and the model's   *)
(* attributes when None, and the sandwich is built on the Fisher           *)
(* information exactly when expected_information holds.                    *)
C15_EstimatorChoice ==
    (Estimated /\ Last.via = "covariance_matrix") =>
        LET robust == Effective(Last.q.robust, hp.robust)
            expected == Effective(Last.q.expected_information, hp.expected_information)
            m == Val(Last.out.value)
        IN  /\ m.estimator \in {"clustered", "robust", "non-robust"}
            /\ m.estimator = "clustered" <=> Last.q.clusters # None
            /\ m.estimator = "robust" <=> (robust /\ Last.q.clusters = None)
            /\ m.estimator = "non-robust" <=> (~robust /\ Last.q.clusters = None)
            /\ m.estimator # "non-robust" =>
                   (m.information = "fisher" <=> expected)
            /\ m.estimator = "non-robust" => m.information = "fisher"

C15_Witness ==
    /\ Estimated
    /\ Last.via = "covariance_matrix"
    /\ hp.robust
    /\ ~hp.expected_information
    /\ Last.q.robust = Some(FALSE)
    /\ Last.q.expected_information = Some(TRUE)
    /\ Last.q.clusters # None
    /\ Val(Last.out.value).estimator = "clustered"
    /\ Val(Last.out.value).information = "fisher"

(* The penalty that the fit has used is positive.                          *)
FitPenalized ==
    \/ hp.alpha # None /\ Val(hp.alpha) > 0
    \/ self.alpha_ # None /\ Val(self.alpha_) > 0
    \/ self._alphas # None /\ Val(self._alphas)[Len(Val(self._alphas))] > 0

(* A request that has all it needs to estimate the matrix.                 *)
CanEstimate(q) ==
    /\ q.X # None
    /\ ~Val(q.X).singular
    /\ q.y
    /\ q.clusters # None =>
          Cardinality({Val(q.clusters)[i] : i \in DOMAIN Val(q.clusters)}) > 1

AsksForStored(q) ==
    /\ q.X = None
    /\ q.sample_weight = None
    /\ ~q.other
    /\ q.robust = None
    /\ q.clusters = None
    /\ q.expected_information = None
    /\ ~q.store_covariance_matrix

(* C17 as stated: once a matrix is stored, every call of covariance_matrix *)
(* without X and without arguments for a new estimate, with or without y,  *)
(* returns the stored matrix as it is, computes nothing and raises         *)
(* nothing.                                                                *)
C17_StoredReturned_AsStated ==
    (/\ pc = "returned"
     /\ Last.via = "covariance_matrix"
     /\ Last.before # None
     /\ AsksForStored(Last.q)) =>
        /\ Last.out.error = "none"
        /\ Last.out.value = Last.before
        /\ ~Last.out.computed
        /\ self.covariance_matrix_ = Last.before

---------------------------------------------------------------------------
(* Properties of the Wald test.                                            *)

WaldReturned == pc = "returned" /\ Last.via = "wald_test"

Given(hyp) == {f \in {"R", "features", "terms", "formula"} : hyp[f] # None}

(* C19: wald_test raises ValueError unless exactly one of R, features,     *)
(* terms and formula is given, and when formula comes with r; otherwise    *)
(* the test of the one given kind is made, and a result has as many        *)
(* degrees of freedom as the restriction matrix has rows.                  *)
C19_WaldDispatch ==
    WaldReturned =>
        LET hyp == Last.q.hyp
            out == Last.out
        IN  IF Cardinality(Given(hyp)) # 1 \/ (hyp.formula # None /\ hyp.r # None)
            THEN /\ out.error = "ValueError"
                 /\ out.at = "wald_test"
                 /\ ~out.computed
            ELSE /\ out.at # "wald_test"
                 /\ out.error = "none" =>
                       /\ Given(hyp) = {Val(out.value).dispatch}
                       /\ Val(out.value).df = Len(Val(out.value).R)
                       /\ hyp.R # None => Val(out.value).R = Val(hyp.R)
                       /\ hyp.features # None =>
                             Val(out.value).df = Len(Val(hyp.features))
                       /\ hyp.formula # None =>
                             Val(out.value).R = Val(hyp.formula).R

C19_Witness ==
    /\ WaldReturned
    /\ Last.q.hyp.terms = Some(<<"c">>)
    /\ Given(Last.q.hyp) = {"terms"}
    /\ Last.out.error = "none"
    /\ Val(Last.out.value).dispatch = "terms"
    /\ Val(Last.out.value).df = 2

(* C20 as stated: with R, features or terms and r = None the right-hand    *)
(* side is the zero vector with one entry for each row of R, and the call  *)
(* does not fail for the lack of r.                                        *)
C20_ZeroRhs_AsStated ==
    (/\ WaldReturned
     /\ Cardinality(Given(Last.q.hyp)) = 1
     /\ Last.q.hyp.formula = None
     /\ Last.q.hyp.r = None) =>
        /\ Last.out.error # "IndexError"
        /\ Last.out.error = "none" =>
              Val(Last.out.value).r = [i \in DOMAIN Val(Last.out.value).R |-> 0]

---------------------------------------------------------------------------
(* Properties of covariance_matrix without training data.                  *)

RaisedInCovarianceMatrix ==
    /\ Last.out.error = "ValueError"
    /\ Last.out.at = "covariance_matrix"
    /\ Last.out.value = None
    /\ ~Last.out.computed

---------------------------------------------------------------------------
(* Properties of the clipping of the start coefficients.                   *)

StartReturned == pc = "solve" /\ path.mode = "single" /\ path.start # <<>>

Idx == IF hp.fit_intercept THEN 1 ELSE 0

Slopes == {j \in DOMAIN path.coef : j > Idx}

AboveLower(c, j) ==
    hp.lower_bounds # None => c[j] >= Val(hp.lower_bounds)[j - Idx]

BelowUpper(c, j) ==
    hp.upper_bounds # None => c[j] <= Val(hp.upper_bounds)[j - Idx]

BoundsCross(j) ==
    /\ hp.lower_bounds # None
    /\ hp.upper_bounds # None
    /\ Val(hp.lower_bounds)[j - Idx] > Val(hp.upper_bounds)[j - Idx]

(* C26 as stated: whatever the source of the start, every entry but the    *)
(* intercept is returned inside the bounds, entries inside the bounds are  *)
(* returned as they were, the intercept is not clipped, and there is a     *)
(* warning exactly when an entry was moved.                                *)
C26_StartInBox_AsStated ==
    StartReturned =>
        /\ \A j \in Slopes :
              /\ AboveLower(path.coef, j)
              /\ BelowUpper(path.coef, j)
              /\ (AboveLower(path.start, j) /\ BelowUpper(path.start, j)) =>
                     path.coef[j] = path.start[j]
        /\ hp.fit_intercept => path.coef[1] = path.start[1]
        /\ path.warned # {} <=> path.coef # path.start

(* C26 amended: the same for every entry whose lower bound is not above    *)
(* its upper bound; an entry whose bounds cross is returned at its upper   *)
(* bound, with a warning if it was moved on the way.                       *)
C26_StartInBox ==
    StartReturned =>
        /\ \A j \in Slopes :
              IF BoundsCross(j)
              THEN /\ path.coef[j] = Val(hp.upper_bounds)[j - Idx]
                   /\ path.warned # {}
              ELSE /\ AboveLower(path.coef, j)
                   /\ BelowUpper(path.coef, j)
                   /\ (AboveLower(path.start, j) /\ BelowUpper(path.start, j)) =>
                          path.coef[j] = path.start[j]
        /\ hp.fit_intercept => path.coef[1] = path.start[1]
        /\ (\A j \in Slopes : ~BoundsCross(j)) =>
               (path.warned # {} <=> path.coef # path.start)

C26_Witness ==
    /\ StartReturned
    /\ hp.fit_intercept
    /\ hp.upper_bounds = Some(<<0>>)
    /\ hp.lower_bounds = None
    /\ path.start = <<1, 1>>
    /\ path.coef = <<1, 0>>
    /\ path.warned = {"upper_bounds"}

(* C28 as stated: _get_start_coef leaves coef_, intercept_ and             *)
(* start_params of the estimator as they were, with and without intercept. *)
C28_StartFrame_AsStated ==
    [][pc = "penalized" =>
          /\ self'.coef_ = self.coef_
          /\ self'.intercept_ = self.intercept_
          /\ hp'.start_params = hp.start_params]_vars

---------------------------------------------------------------------------
(* Properties of the penalties along the path.                             *)

PathPenaltiesSet == path.mode = "path" /\ pc \notin {"new", "validated", "set_up"}

(* C27: through all passes of _solve_regularization_path P1_no_alpha and   *)
(* P2_no_alpha stay what setup_p1 and setup_p2 made them, and the solve    *)
(* for alphas[k] is handed P1_no_alpha * alphas[k] and                     *)
(* P2_no_alpha * alphas[k], whatever the passes before were.               *)
C27_FreshPenalties ==
    PathPenaltiesSet =>
        /\ path.P1_no_alpha = setup_p1(hp.P1, args.n_features, 1, hp.l1_ratio)
        /\ path.P2_no_alpha = setup_p2(hp.P2, args.n_features, 1, hp.l1_ratio)
        /\ \A i \in DOMAIN calls :
             /\ calls[i].call.P1 =
                  [j \in DOMAIN path.P1_no_alpha |->
                     path.P1_no_alpha[j] * Val(args.alphas)[i]]
             /\ calls[i].call.P2.ndim = 1
             /\ calls[i].call.P2.v =
                  [j \in DOMAIN path.P2_no_alpha.v |->
                     path.P2_no_alpha.v[j] * Val(args.alphas)[i]]

C27_Witness ==
    /\ PathPenaltiesSet
    /\ pc = "done"
    /\ Val(args.alphas) = <<2, 1>>
    /\ Len(calls) = 2
    /\ calls[1].call.P1 = <<2>>
    /\ calls[2].call.P1 = <<1>>
    /\ calls[1].call.P2.v = <<4>>
    /\ calls[2].call.P2.v = <<2>>

---------------------------------------------------------------------------
(* Properties of setup_p2 and of the rescaled fit.                         *)

P2IsSet == pc \in {"penalized", "solve", "irls", "solved", "done"}

QuadSamples == [1..2 -> {-1, 0, 2}]

(* w' M w                                                                  *)
Quad(M, w) ==
    SumSeq([i \in 1..2 |-> SumSeq([j \in 1..2 |-> w[i] * M[i][j] * w[j]])])

(* C24: for a full matrix S setup_p2 returns alpha (1 - l1_ratio)          *)
(* (S + S') / 2: it is symmetric, symmetrizing it again changes nothing,   *)
(* and its quadratic form w' P2 w is that of alpha (1 - l1_ratio) S; a     *)
(* 1-d specification (and the default weights) is only scaled.             *)
C24_SymmetricP2 ==
    (P2IsSet /\ path.mode = "single") =>
        LET c == Val(hp.alpha) * (L1Den - hp.l1_ratio)
            S == IF hp.P2.kind = "array" THEN hp.P2.arr
                 ELSE [ndim |-> 1, v |-> <<1, 1>>]
            R == path.P2
        IN  /\ R.ndim = S.ndim
            /\ S.ndim = 1 => \A j \in 1..2 : R.v[j] = 2 * c * S.v[j]
            /\ S.ndim = 2 =>
                 /\ \A i, j \in 1..2 :
                      /\ R.v[i][j] = c * (S.v[i][j] + S.v[j][i])
                      /\ R.v[i][j] = R.v[j][i]
                      /\ R.v[i][j] + R.v[j][i] = 2 * R.v[i][j]
                 /\ \A w \in QuadSamples :
                      Quad(R.v, w) = 2 * c * Quad(S.v, w)

C24_Witness ==
    /\ P2IsSet
    /\ Len(calls) = 1
    /\ hp.alpha = Some(2)
    /\ hp.l1_ratio = 1
    /\ hp.P2.kind = "array"
    /\ hp.P2.arr = [ndim |-> 2, v |-> << <<2, 2>>, <<0, -1>> >>]
    /\ path.P2 = [ndim |-> 2, v |-> << <<8, 4>>, <<4, -4>> >>]

(* C23: the fit with alpha = a and weights s and the fit with alpha = a/k  *)
(* and weights s k hand the same P1 and the same P2, and with them the     *)
(* same arguments, to the solver, so that the solver has the same problem  *)
(* to solve; the rescaled fit fails nowhere on its way to the solver.      *)
C23_PenaltyScaling ==
    /\ Len(calls) = 2 =>
         /\ calls[2].call.P1 = calls[1].call.P1
         /\ calls[2].call.P2 = calls[1].call.P2
         /\ calls[2].call = calls[1].call
    /\ Len(calls) >= 1 => pc # "failed"

C23_Witness ==
    /\ Len(calls) = 2
    /\ pc = "done"
    /\ hp.alpha = Some(1)
    /\ hp.P1.arr = <<2, 4>>
    /\ hp.P2.arr = [ndim |-> 2, v |-> << <<0, 4>>, <<0, 4>> >>]
    /\ calls[1].call.P1 = <<2, 4>>
    /\ calls[1].call.P2 = [ndim |-> 2, v |-> << <<0, 4>>, <<4, 8>> >>]

---------------------------------------------------------------------------
(* What is left of the solves of a path.                                   *)

(* The latest solve that has returned, 0 if there is none.                 *)
LastReturned ==
    IF calls = <<>> THEN 0
    ELSE IF calls[Len(calls)].out # None THEN Len(calls) ELSE Len(calls) - 1

(* C30: n_iter_, _n_cycles and diagnostics_ are at every moment those of   *)
(* the latest solve that has returned, so that after                       *)
(* _solve_regularization_path over n >= 1 alphas they are those of the     *)
(* solve for the last alpha alone, while coef_path_ has one row for every  *)
(* alpha, holding what the solve for that alpha returned.                  *)
C30_LastSolveOnly ==
    /\ LastReturned > 0 =>
         LET out == Val(calls[LastReturned].out) IN
           /\ self.n_iter_ = out.n_iter
           /\ self._n_cycles = out.n_cycles
           /\ self.diagnostics_ = Some(out.diagnostics)
    /\ (pc = "done" /\ path.mode = "path" /\ Len(path.alphas) >= 1) =>
         /\ Len(calls) = Len(path.alphas)
         /\ LastReturned = Len(calls)
         /\ LastReturned >= 1
         /\ Len(self.coef_path_) = Len(calls)
         /\ \A i \in DOMAIN calls : self.coef_path_[i] = Val(calls[i].result)

C30_Witness ==
    /\ pc = "done"
    /\ path.mode = "path"
    /\ Len(calls) = 2
    /\ Val(calls[1].out).n_iter = 2
    /\ Val(calls[1].out).diagnostics = <<2, <<1>> >>
    /\ self.n_iter_ = 0
    /\ self._n_cycles = 0
    /\ self.diagnostics_ = Some(<<0, <<0>> >>)
    /\ self.coef_path_ = << <<1>>, <<0>> >>

---------------------------------------------------------------------------
(* Properties of the largest alpha of the grid.                            *)

PositiveWeights == {j \in DOMAIN path.P1_no_alpha : path.P1_no_alpha[j] > 0}

AllWeightsZero == \A j \in DOMAIN path.P1_no_alpha : path.P1_no_alpha[j] = 0

(* |gradient_j| / (2 * P1_no_alpha[j]) with the gradient of the deviance   *)
(* taken at zero coefficients and, with fit_intercept, the guessed         *)
(* intercept.                                                              *)
GradientRatio(j) ==
    Rat(Abs(DevDerN(hp, args, AlphaPathStartN(hp, args), j)) * L1Den,
        2 * NumObs(args) * NumObs(args) * path.P1_no_alpha[j])

IsMaxOverPositive(m) ==
    /\ \A j \in PositiveWeights : ~RatLess(m, GradientRatio(j))
    /\ \E j \in PositiveWeights : m = GradientRatio(j)

(* C25 as stated: alpha_max is 10 when all of P1_no_alpha is zero and      *)
(* otherwise the maximum of |gradient_j| / (2 P1_no_alpha[j]) over the     *)
(* coordinates with P1_no_alpha[j] > 0.                                    *)
C25_AlphaMax_AsStated ==
    AlphaPathRan =>
        /\ path.alpha_max # None
        /\ IF AllWeightsZero
           THEN path.alpha_max = Some(Rat(FallbackAlphaMax, 1))
           ELSE IsMaxOverPositive(Val(path.alpha_max))

(* C25: alpha_max is 10 when all of P1_no_alpha is zero; when some entry   *)
(* is positive it is the maximum of |gradient_j| / (2 P1_no_alpha[j]) over *)
(* exactly the coordinates with P1_no_alpha[j] > 0, the intercept and the  *)
(* coordinates of weight zero or below staying out; when no entry is       *)
(* positive but some is negative, no alpha_max is computed and             *)
(* _get_alpha_path raises ValueError.                                      *)
C25_AlphaMax ==
    AlphaPathRan =>
        IF AllWeightsZero
        THEN path.alpha_max = Some(Rat(FallbackAlphaMax, 1))
        ELSE IF PositiveWeights # {}
        THEN /\ path.alpha_max # None
             /\ IsMaxOverPositive(Val(path.alpha_max))
             /\ err.at # "_get_alpha_path"
        ELSE /\ path.alpha_max = None
             /\ pc = "failed"
             /\ err = Raised("ValueError", "_get_alpha_path")

C25_Witness ==
    /\ pc = "alphas"
    /\ hp.fit_intercept
    /\ path.P1_no_alpha[1] = 0
    /\ path.P1_no_alpha[2] > 0
    /\ Abs(DevDerN(hp, args, AlphaPathStartN(hp, args), 1))
         > Abs(DevDerN(hp, args, AlphaPathStartN(hp, args), 2))
    /\ DevDerN(hp, args, AlphaPathStartN(hp, args), 2) # 0
    /\ path.alpha_max = Some(GradientRatio(2))

---------------------------------------------------------------------------
(* Fixed point of the IRLS loop without a penalty.                         *)

NoPenalty(c) ==
    /\ \A j \in DOMAIN c.P1 : c.P1[j] = 0
    /\ c.P2.ndim = 1
    /\ \A j \in DOMAIN c.P2.v : c.P2.v[j] = 0

StationaryStart ==
    /\ calls # <<>>
    /\ IsIrls(calls[1].call.solver)
    /\ NoPenalty(calls[1].call)
    /\ calls[1].call.coef \in args.stationary

---------------------------------------------------------------------------
(* Round trip through the standardized coordinates.                        *)

StdOf(j) == IF args.col_stds = None THEN 1 ELSE Val(args.col_stds)[j]

(* The solution in standardized coordinates, as _solve returned it.        *)
SolvedIntercept == IF hp.fit_intercept THEN path.coef[1] ELSE 0

SolvedSlopes == IF hp.fit_intercept THEN Tail(path.coef) ELSE path.coef

GivenStart == Val(hp.start_params).vals

=============================================================================
